---- MODULE Spec2Model ----
(***************************************************************************)
(* The burnchain header index of the subnet node                           *)
(* (testnet/stacks-node/src/burnchains/db_indexer.rs): the `headers` table,*)
(* the ingest channel's push_block with its reorg walk, and the indexer's  *)
(* read side (canonical tip, find_chain_reorg, read_headers).              *)
(*                                                                         *)
(* Hashes are small naturals ordered as the byte strings are ordered.      *)
(* Hash 0 stands for a parent that is never delivered (the parent of the   *)
(* first block the node hears of).  An Option<T> is a set with at most one *)
(* element.  The table has no transaction around push_block: every         *)
(* statement is committed on its own, so a panic leaves the statements     *)
(* executed so far in the table.                                           *)
(***************************************************************************)
EXTENDS Integers, Sequences, FiniteSets, TLC

\* Bounds of the model.
MaxHash == 4
MaxHeight == 2

Hashes == 1..MaxHash
ParentHashes == 0..MaxHash
Heights == 0..MaxHeight

VARIABLES
    headers,             \* the rows of the `headers` table
    last_canonical_tip,  \* DBBurnchainIndexer.last_canonical_tip
    ret,                 \* what the last call was, what it was given and what it returned
    headers2,            \* the table of a second node, fed the same blocks in its own order
    in_flight,           \* the POSTs being handled, by server task: how far push_block has got
    envelope,            \* the NewBlock given to the event decoder, none before the first
    block,               \* the StacksHyperBlock the decoder built from it, none before the call
    mempool,             \* the rows of the `mempool` table
    mret,                \* the last mempool call: what it was given and what it returned
    fee_estimates,       \* the rows of the `fee_estimates` table
    walk,                \* the iterate_candidates call: where it is and what it has visited
    store                \* mempool.sqlite: its schema, and how it was opened

vars == <<headers, last_canonical_tip, ret, headers2, in_flight, envelope, block,
         mempool, mret, fee_estimates, walk, store>>

indexer_vars == <<headers, last_canonical_tip, ret, headers2, in_flight>>

decoder_vars == <<envelope, block>>

mempool_vars == <<mempool, mret, fee_estimates, walk, store>>

\* The time stamp of the L1 block with this hash (the hash names the block, so
\* two deliveries of one hash carry one time stamp).
TimeStampOf(header_hash) == 1000 + header_hash

\* A header as delivered (BurnHeaderIPC): no flag yet.
BlockHeaders ==
    { [height |-> h, header_hash |-> x, parent_header_hash |-> p,
       time_stamp |-> TimeStampOf(x)] : h \in Heights, x \in Hashes, p \in ParentHashes }

----------------------------------------------------------------------------
\* Row access

HasHeader(hdrs, hash) == \E r \in hdrs : r.header_hash = hash

HeaderFor(hdrs, hash) == CHOOSE r \in hdrs : r.header_hash = hash

SetCanonical(hdrs, hash, flag) ==
    { IF r.header_hash = hash THEN [r EXCEPT !.is_canonical = flag] ELSE r : r \in hdrs }

\* height and time_stamp are cast to u32; the heights and stamps here are far
\* below 2^32, where the cast keeps the value.
InsertHeader(hdrs, hdr, flag) ==
    hdrs \cup {[height |-> hdr.height, header_hash |-> hdr.header_hash,
                parent_header_hash |-> hdr.parent_header_hash,
                time_stamp |-> hdr.time_stamp, is_canonical |-> flag]}

\* compare_headers without the comparison of the hashes.
compare_headers_by_height(a, b) ==
    IF a.height > b.height THEN -1
    ELSE IF a.height < b.height THEN 1
    ELSE 0

\* -1 when a is the greater header, 1 when b is, 0 when they are the same.
compare_headers(a, b) ==
    IF a.height > b.height THEN -1
    ELSE IF a.height < b.height THEN 1
    ELSE IF a.header_hash > b.header_hash THEN -1
    ELSE IF a.header_hash < b.header_hash THEN 1
    ELSE 0

\* SELECT * FROM headers ORDER BY height DESC, header_hash DESC: the first row.
get_canonical_chain_tip(hdrs) ==
    { r \in hdrs : \A o \in hdrs :
        \/ r.height > o.height
        \/ r.height = o.height /\ r.header_hash >= o.header_hash }

----------------------------------------------------------------------------
\* process_reorg

RECURSIVE ReorgUp(_, _)
\* Step 1: flag the ancestors of the new tip until one is flagged already.
ReorgUp(hdrs, up_cursor) ==
    IF ~HasHeader(hdrs, up_cursor)
    THEN [headers |-> hdrs, outcome |-> "panic", gca |-> {}]
    ELSE LET cursor_header == HeaderFor(hdrs, up_cursor) IN
         IF cursor_header.is_canonical # 0
         THEN [headers |-> hdrs, outcome |-> "ok", gca |-> {cursor_header}]
         ELSE ReorgUp(SetCanonical(hdrs, up_cursor, 1), cursor_header.parent_header_hash)

RECURSIVE ReorgDown(_, _, _)
\* Step 2: unflag from the old tip down to the greatest common ancestor.
ReorgDown(hdrs, down_cursor, gca_hash) ==
    IF ~HasHeader(hdrs, down_cursor)
    THEN [headers |-> hdrs, outcome |-> "panic"]
    ELSE LET cursor_header == HeaderFor(hdrs, down_cursor) IN
         IF cursor_header.header_hash = gca_hash
         THEN [headers |-> hdrs, outcome |-> "ok"]
         ELSE ReorgDown(SetCanonical(hdrs, down_cursor, 0), cursor_header.parent_header_hash,
                        gca_hash)

process_reorg(hdrs, new_tip, old_tip) ==
    LET up == ReorgUp(hdrs, new_tip.parent_header_hash) IN
    IF up.outcome = "panic"
    THEN [headers |-> up.headers, outcome |-> "panic", height |-> 0]
    ELSE LET greatest_common_ancestor == CHOOSE g \in up.gca : TRUE
             down == ReorgDown(up.headers, old_tip.header_hash,
                               greatest_common_ancestor.header_hash)
         IN  [headers |-> down.headers, outcome |-> down.outcome,
              height |-> IF down.outcome = "ok" THEN greatest_common_ancestor.height ELSE 0]

----------------------------------------------------------------------------
\* push_block

\* PushDecision with the sign of compare_headers read the other way round.
PushDecisionSignFlipped(current_canonical_tip_opt, new_block) ==
    IF current_canonical_tip_opt = {}
    THEN <<TRUE, FALSE>>
    ELSE LET current_canonical_tip == CHOOSE t \in current_canonical_tip_opt : TRUE IN
         IF new_block.parent_header_hash = current_canonical_tip.header_hash
         THEN <<TRUE, FALSE>>
         ELSE IF compare_headers(current_canonical_tip, new_block) < 0
              THEN <<TRUE, TRUE>>
              ELSE <<FALSE, FALSE>>

\* <<is_canonical, needs_reorg>> of the new block against the current tip.
PushDecision(current_canonical_tip_opt, new_block) ==
    IF current_canonical_tip_opt = {}
    THEN <<TRUE, FALSE>>
    ELSE LET current_canonical_tip == CHOOSE t \in current_canonical_tip_opt : TRUE IN
         IF new_block.parent_header_hash = current_canonical_tip.header_hash
         THEN <<TRUE, FALSE>>
         ELSE IF compare_headers(current_canonical_tip, new_block) > 0
              THEN <<TRUE, TRUE>>
              ELSE <<FALSE, FALSE>>

\* push_block that carries on after the INSERT was refused.
push_block_ignoring_insert_error(hdrs, new_block) ==
    LET current_canonical_tip_opt == get_canonical_chain_tip(hdrs)
        decision == PushDecision(current_canonical_tip_opt, new_block)
        is_canonical == decision[1]
        needs_reorg == decision[2]
        base == [headers |-> hdrs, outcome |-> "ok", tip |-> current_canonical_tip_opt,
                 is_canonical |-> is_canonical, needs_reorg |-> needs_reorg, height |-> 0]
        inserted == IF HasHeader(hdrs, new_block.header_hash) THEN hdrs
                    ELSE InsertHeader(hdrs, new_block, IF is_canonical THEN 1 ELSE 0)
    IN  IF ~needs_reorg
        THEN [base EXCEPT !.headers = inserted]
        ELSE LET r == process_reorg(inserted, new_block,
                                    CHOOSE t \in current_canonical_tip_opt : TRUE)
             IN  [base EXCEPT !.headers = r.headers, !.outcome = r.outcome,
                              !.height = r.height]

\* The whole call: the table afterwards, how the call ended ("ok", "err" for the
\* INSERT refused by the primary key, "panic"), and the locals a caller cannot see.
push_block(hdrs, new_block) ==
    LET current_canonical_tip_opt == get_canonical_chain_tip(hdrs)
        decision == PushDecision(current_canonical_tip_opt, new_block)
        is_canonical == decision[1]
        needs_reorg == decision[2]
        base == [headers |-> hdrs, outcome |-> "ok", tip |-> current_canonical_tip_opt,
                 is_canonical |-> is_canonical, needs_reorg |-> needs_reorg, height |-> 0]
    IN  IF HasHeader(hdrs, new_block.header_hash)
        THEN [base EXCEPT !.outcome = "err"]
        ELSE LET inserted == InsertHeader(hdrs, new_block, IF is_canonical THEN 1 ELSE 0) IN
             IF ~needs_reorg
             THEN [base EXCEPT !.headers = inserted]
             ELSE LET r == process_reorg(inserted, new_block,
                                         CHOOSE t \in current_canonical_tip_opt : TRUE)
                  IN  [base EXCEPT !.headers = r.headers, !.outcome = r.outcome,
                                   !.height = r.height]

----------------------------------------------------------------------------
\* The indexer's read side

\* SELECT is_canonical FROM headers WHERE header_hash = ?1 (the row is there:
\* rows are never deleted and the hash comes from a row read earlier).
is_canonical(hdrs, header_hash) == HeaderFor(hdrs, header_hash).is_canonical # 0

RECURSIVE find_first_canonical_ancestor(_, _)
find_first_canonical_ancestor(hdrs, cursor) ==
    IF ~HasHeader(hdrs, cursor)
    THEN [outcome |-> "panic", height |-> 0]
    ELSE LET cursor_header == HeaderFor(hdrs, cursor) IN
         IF cursor_header.is_canonical # 0
         THEN [outcome |-> "ok", height |-> cursor_header.height]
         ELSE find_first_canonical_ancestor(hdrs, cursor_header.parent_header_hash)

\* SELECT MAX(height) FROM headers, 0 for no result.
get_highest_header_height(hdrs) ==
    IF hdrs = {} THEN 0
    ELSE CHOOSE m \in {r.height : r \in hdrs} : \A r \in hdrs : r.height <= m

\* find_chain_reorg that answers with the height of the tip it has cached while
\* that tip is still canonical.
find_chain_reorg_cached_height(hdrs, last) ==
    LET new_tip == get_canonical_chain_tip(hdrs) IN
    IF last = {}
    THEN [outcome |-> "ok", last |-> new_tip,
          height |-> IF new_tip = {} THEN 0 ELSE (CHOOSE t \in new_tip : TRUE).height]
    ELSE LET tip == CHOOSE t \in last : TRUE IN
         IF is_canonical(hdrs, tip.header_hash)
         THEN [outcome |-> "ok", last |-> new_tip, height |-> tip.height]
         ELSE LET result == find_first_canonical_ancestor(hdrs, tip.header_hash) IN
              IF result.outcome = "panic"
              THEN [outcome |-> "panic", last |-> last, height |-> 0]
              ELSE [outcome |-> "ok", last |-> new_tip, height |-> result.height]

\* The result and the tip cached afterwards.
find_chain_reorg(hdrs, last) ==
    IF last = {}
    THEN LET new_tip == get_canonical_chain_tip(hdrs) IN
         [outcome |-> "ok", last |-> new_tip,
          height |-> IF new_tip = {} THEN 0 ELSE (CHOOSE t \in new_tip : TRUE).height]
    ELSE LET tip == CHOOSE t \in last : TRUE
             still_canonical == is_canonical(hdrs, tip.header_hash)
             result == IF still_canonical
                       THEN [outcome |-> "ok", height |-> get_highest_header_height(hdrs)]
                       ELSE find_first_canonical_ancestor(hdrs, tip.header_hash)
         IN  IF result.outcome = "panic"
             THEN [outcome |-> "panic", last |-> last, height |-> 0]
             ELSE [outcome |-> "ok", last |-> get_canonical_chain_tip(hdrs),
                   height |-> result.height]

\* WHERE height >= ?1 AND height < ?2 and is_canonical = true
SelectCanonicalRange(hdrs, start_block, end_block) ==
    { r \in hdrs : r.height >= start_block /\ r.height < end_block /\ r.is_canonical = 1 }

RECURSIVE OrderedByHeight(_)
\* ORDER BY height: every order of the rows that is ascending in height (rows of
\* one height come in an order the query does not fix).
OrderedByHeight(S) ==
    IF S = {} THEN {<<>>}
    ELSE LET first == { r \in S : \A o \in S : r.height <= o.height } IN
         UNION { { <<r>> \o s : s \in OrderedByHeight(S \ {r}) } : r \in first }

RECURSIVE GatherHeaders(_, _, _)
\* The gather loop: take rows while their heights are next_height, next_height+1, ...
GatherHeaders(rows, i, next_height) ==
    IF i > Len(rows) THEN <<>>
    ELSE IF rows[i].height # next_height THEN <<>>
    ELSE <<rows[i]>> \o GatherHeaders(rows, i + 1, next_height + 1)

\* The results read_headers can give.
read_headers(hdrs, start_block, end_block) ==
    { GatherHeaders(rows, 1, start_block) :
        rows \in OrderedByHeight(SelectCanonicalRange(hdrs, start_block, end_block)) }

\* The columns of the table (DB_BURNCHAIN_SCHEMA).
Columns == {"height", "header_hash", "parent_header_hash", "time_stamp", "is_canonical"}

\* config.first_burn_header_hash
first_burn_header_hash == 1

\* SELECT * FROM headers WHERE burn_header_hash = ?1, with an expect on the
\* query's result and an expect on the row: the statement names a column the
\* table does not have, so the query fails, and a query that finds no row
\* gives None; either expect panics.
get_header_for_hash(hdrs, hash) ==
    IF "burn_header_hash" \notin Columns
    THEN [outcome |-> "panic", row |-> {}]
    ELSE IF ~HasHeader(hdrs, hash)
         THEN [outcome |-> "panic", row |-> {}]
         ELSE [outcome |-> "ok", row |-> {HeaderFor(hdrs, hash)}]

get_first_block_height(hdrs) ==
    LET header == get_header_for_hash(hdrs, first_burn_header_hash) IN
    [outcome |-> header.outcome,
     value |-> IF header.row = {} THEN 0 ELSE (CHOOSE r \in header.row : TRUE).height]

get_first_block_header_hash(hdrs) ==
    LET header == get_header_for_hash(hdrs, first_burn_header_hash) IN
    [outcome |-> header.outcome,
     value |-> IF header.row = {} THEN 0 ELSE (CHOOSE r \in header.row : TRUE).header_hash]

get_first_block_header_timestamp(hdrs) ==
    LET header == get_header_for_hash(hdrs, first_burn_header_hash) IN
    [outcome |-> header.outcome,
     value |-> IF header.row = {} THEN 0 ELSE (CHOOSE r \in header.row : TRUE).time_stamp]

\* sync_headers: neither downloads nor waits.
sync_headers(hdrs) == [outcome |-> "ok", height |-> get_highest_header_height(hdrs)]

\* drop_headers that forgets the rows above new_height.
drop_headers_truncating(hdrs, new_height) == { r \in hdrs : r.height <= new_height }

\* drop_headers: a no-op.
drop_headers(hdrs, new_height) == hdrs

----------------------------------------------------------------------------
\* The mempool (src/core/mempool.rs)

MaxAddress == 2
MaxNonce == 0
MaxFee == 2
MaxLength == 3

Addresses == 1..MaxAddress
Nonces == 0..MaxNonce
Fees == 1..MaxFee
\* The lengths of the serialized transactions: the shortest one and the longest.
Lengths == {1, MaxLength}

\* Option<T>: None is the empty set and Some(x) the set of x alone.
None == {}
Some(x) == {x}

\* A chain tip (consensus_hash, block_header_hash).
Tip(ch, bh) == [consensus_hash |-> ch, block_header_hash |-> bh]

FIRST_BURNCHAIN_CONSENSUS_HASH == "ch0"

\* The Stacks blocks the chainstate holds: the first block and two children of
\* it, which are siblings of each other.
FirstStacksBlock == Tip(FIRST_BURNCHAIN_CONSENSUS_HASH, "bh0")
StacksBlocks == {FirstStacksBlock, Tip("ch1", "bh1"), Tip("ch2", "bh2")}

make_index_block_hash(consensus_hash, block_hash) == <<consensus_hash, block_hash>>

IndexBlocks == { make_index_block_hash(b.consensus_hash, b.block_header_hash) : b \in StacksBlocks }

StacksBlockHeight(index_block) ==
    IF index_block = make_index_block_hash(FIRST_BURNCHAIN_CONSENSUS_HASH, "bh0") THEN 0 ELSE 1

\* chainstate.get_stacks_block_height: the height of a block the chainstate holds.
get_stacks_block_height(consensus_hash, block_hash) ==
    IF Tip(consensus_hash, block_hash) \in StacksBlocks
    THEN Some(StacksBlockHeight(make_index_block_hash(consensus_hash, block_hash)))
    ELSE None

\* headers_conn.get_ancestor_block_height(tip, ancestor): the height of ancestor
\* when it is tip or an ancestor of tip, and nothing otherwise.
get_ancestor_block_height(tip_block, ancestor) ==
    IF /\ tip_block \in IndexBlocks
       /\ ancestor \in IndexBlocks
       /\ (ancestor = tip_block
           \/ StacksBlockHeight(ancestor) < StacksBlockHeight(tip_block))
    THEN Some(StacksBlockHeight(ancestor))
    ELSE None

\* A sponsor of a transaction: its address and its nonce.
Sponsors == [address : Addresses, nonce : Nonces]

\* The transactions a caller submits.  sponsor is None for a standard
\* transaction and Some(sponsor), an account other than the origin, for a
\* sponsored one.
Transactions ==
    { tx \in [origin_address : Addresses, origin_nonce : Nonces,
              sponsor : {None} \cup { Some(s) : s \in Sponsors },
              tx_fee : Fees, length : Lengths] :
        \A s \in tx.sponsor : s.address # tx.origin_address }

\* tx.txid(): the hash of the transaction, which tells any two transactions apart.
TxidOf(tx) == <<tx.origin_address, tx.origin_nonce, tx.sponsor, tx.tx_fee, tx.length>>

\* A row of the mempool table.  accept_time and the tx blob, which no query of
\* this section selects on, are left out of the row.  The INSERT names neither
\* of the last-known-nonce columns, so that a new row has NULL in both.
MemPoolRow(id, origin_address, origin_nonce, sponsor_address, sponsor_nonce, tx_fee, length, consensus_hash, block_header_hash, height) ==
    [txid |-> id, origin_address |-> origin_address, origin_nonce |-> origin_nonce,
     sponsor_address |-> sponsor_address, sponsor_nonce |-> sponsor_nonce,
     tx_fee |-> tx_fee, length |-> length, consensus_hash |-> consensus_hash,
     block_header_hash |-> block_header_hash, height |-> height,
     last_known_origin_nonce |-> None, last_known_sponsor_nonce |-> None]

\* get_tx_metadata_by_address: the row in the origin or in the sponsor slot.
get_tx_metadata_by_address(conn, is_origin, addr, nonce) ==
    IF is_origin
    THEN { r \in conn : r.origin_address = addr /\ r.origin_nonce = nonce }
    ELSE { r \in conn : r.sponsor_address = addr /\ r.sponsor_nonce = nonce }

\* A same-fork test that asks in one direction only: is the first block the
\* second block or an ancestor of it.
are_blocks_in_same_fork_one_way(first_consensus_hash, first_stacks_block, second_consensus_hash, second_stacks_block) ==
    LET first_block == make_index_block_hash(first_consensus_hash, first_stacks_block)
        second_block == make_index_block_hash(second_consensus_hash, second_stacks_block)
    IN  IF second_block = first_block THEN TRUE
        ELSE get_ancestor_block_height(second_block, first_block) # None

are_blocks_in_same_fork(first_consensus_hash, first_stacks_block, second_consensus_hash, second_stacks_block) ==
    LET first_block == make_index_block_hash(first_consensus_hash, first_stacks_block)
        second_block == make_index_block_hash(second_consensus_hash, second_stacks_block)
    IN  IF second_block = first_block THEN TRUE
        ELSE LET height_of_first_with_second_tip ==
                     get_ancestor_block_height(second_block, first_block)
                 height_of_second_with_first_tip ==
                     get_ancestor_block_height(first_block, second_block)
             IN  ~(height_of_first_with_second_tip = None
                   /\ height_of_second_with_first_tip = None)

\* The replace-by-fee test that compares the fees per byte.
ReplaceByFeeRate(tx_fee, length, prior_tx) == tx_fee * prior_tx.length > prior_tx.tx_fee * length

\* The replace-by-fee test that lets an equal fee through.
ReplaceByFeeOrEqual(tx_fee, length, prior_tx) == tx_fee >= prior_tx.tx_fee

\* try_add_tx's replace-by-fee test.
ReplaceByFee(tx_fee, length, prior_tx) == tx_fee > prior_tx.tx_fee

\* INSERT that removes the row of the same txid only.
InsertOrReplaceByTxid(conn, row) == { r \in conn : r.txid # row.txid } \cup {row}

\* INSERT OR REPLACE INTO mempool: the rows that conflict with the new row on
\* the primary key or on one of the two UNIQUE constraints are deleted first.
InsertOrReplace(conn, row) ==
    { r \in conn :
        /\ r.txid # row.txid
        /\ ~(r.origin_address = row.origin_address /\ r.origin_nonce = row.origin_nonce)
        /\ ~(r.sponsor_address = row.sponsor_address /\ r.sponsor_nonce = row.sponsor_nonce) }
    \cup {row}

\* event_observer.mempool_txs_dropped(txids, reason).  A notification is kept
\* with the table as it is when the call is made.  txids is a set: the SELECT
\* that gathers them has no ORDER BY, and txid is the primary key.
Notification(txids, reason, conn) == [txids |-> txids, reason |-> reason, mempool |-> conn]

\* try_add_tx.  prior_tx is the row it found, replace_reason why it replaced it
\* and dropped the notifications it sent; event_observer is TRUE when an
\* observer is given.
try_add_tx(conn, consensus_hash, block_header_hash, id, tx_fee, length, height, origin_address, origin_nonce, sponsor_address, sponsor_nonce, event_observer) ==
    LET by_origin == get_tx_metadata_by_address(conn, TRUE, origin_address, origin_nonce)
        prior_tx == IF by_origin # None THEN by_origin
                    ELSE get_tx_metadata_by_address(conn, FALSE, sponsor_address, sponsor_nonce)
        replace_reason ==
            IF \E p \in prior_tx : ReplaceByFee(tx_fee, length, p) THEN "REPLACE_BY_FEE"
            ELSE IF \E p \in prior_tx :
                        ~are_blocks_in_same_fork(p.consensus_hash, p.block_header_hash,
                                                 consensus_hash, block_header_hash)
                 THEN "REPLACE_ACROSS_FORK"
                 ELSE "REPLACE_BY_FEE"
        add_tx ==
            \A p \in prior_tx :
                \/ ReplaceByFee(tx_fee, length, p)
                \/ ~are_blocks_in_same_fork(p.consensus_hash, p.block_header_hash,
                                            consensus_hash, block_header_hash)
        inserted ==
            InsertOrReplace(conn, MemPoolRow(id, origin_address, origin_nonce, sponsor_address,
                                             sponsor_nonce, tx_fee, length, consensus_hash,
                                             block_header_hash, height))
    IN  IF ~add_tx
        THEN [outcome |-> "ConflictingNonceInMempool", mempool |-> conn,
              prior_tx |-> prior_tx, replace_reason |-> replace_reason, dropped |-> <<>>]
        ELSE [outcome |-> "Ok", mempool |-> inserted,
              prior_tx |-> prior_tx, replace_reason |-> replace_reason,
              dropped |-> IF prior_tx # None /\ event_observer
                          THEN <<Notification({ p.txid : p \in prior_tx }, replace_reason,
                                              inserted)>>
                          ELSE <<>>]

\* garbage_collect that deletes the rows first and gathers the txids to report
\* after.
garbage_collect_delete_first(conn, min_height, event_observer) ==
    LET kept == { r \in conn : ~(r.height < min_height) }
    IN  [mempool |-> kept,
         dropped |-> IF event_observer
                     THEN <<Notification({ r.txid : r \in { q \in kept : q.height < min_height } },
                                         "STALE_COLLECT", kept)>>
                     ELSE <<>>]

\* garbage_collect that also deletes the rows at min_height.
garbage_collect_inclusive(conn, min_height, event_observer) ==
    [mempool |-> { r \in conn : ~(r.height <= min_height) },
     dropped |-> IF event_observer
                 THEN <<Notification({ r.txid : r \in { q \in conn : q.height <= min_height } },
                                     "STALE_COLLECT", conn)>>
                 ELSE <<>>]

\* garbage_collect: with an observer, SELECT txid FROM mempool WHERE height <
\* min_height and the notification; then DELETE FROM mempool WHERE height <
\* min_height.
garbage_collect(conn, min_height, event_observer) ==
    [mempool |-> { r \in conn : ~(r.height < min_height) },
     dropped |-> IF event_observer
                 THEN <<Notification({ r.txid : r \in { q \in conn : q.height < min_height } },
                                     "STALE_COLLECT", conn)>>
                 ELSE <<>>]

\* A call that fails before try_add_tx.
Rejected(outcome, conn) ==
    [outcome |-> outcome, mempool |-> conn, prior_tx |-> None, replace_reason |-> "",
     dropped |-> <<>>]

\* tx_submit, were a tip the chainstate does not hold taken at height 0 under
\* any consensus hash.
tx_submit_any_tip(conn, consensus_hash, block_hash, tx, do_admission_checks, admits, event_observer) ==
    LET found == get_stacks_block_height(consensus_hash, block_hash)
        height == IF found # None THEN CHOOSE h \in found : TRUE ELSE 0
        sponsor_address == IF tx.sponsor # None
                           THEN (CHOOSE s \in tx.sponsor : TRUE).address ELSE tx.origin_address
        sponsor_nonce == IF tx.sponsor # None
                         THEN (CHOOSE s \in tx.sponsor : TRUE).nonce ELSE tx.origin_nonce
    IN  IF do_admission_checks /\ ~admits
        THEN Rejected("NotAdmitted", conn)
        ELSE try_add_tx(conn, consensus_hash, block_hash, TxidOf(tx), tx.tx_fee,
                        tx.length, height, tx.origin_address, tx.origin_nonce,
                        sponsor_address, sponsor_nonce, event_observer)

\* tx_submit.  admits is what the admitter answers when it is asked.
tx_submit(conn, consensus_hash, block_hash, tx, do_admission_checks, admits, event_observer) ==
    LET found == get_stacks_block_height(consensus_hash, block_hash)
        known == found # None \/ consensus_hash = FIRST_BURNCHAIN_CONSENSUS_HASH
        height == IF found # None THEN CHOOSE h \in found : TRUE ELSE 0
        origin_address == tx.origin_address
        origin_nonce == tx.origin_nonce
        sponsor_address == IF tx.sponsor # None
                           THEN (CHOOSE s \in tx.sponsor : TRUE).address ELSE tx.origin_address
        sponsor_nonce == IF tx.sponsor # None
                         THEN (CHOOSE s \in tx.sponsor : TRUE).nonce ELSE tx.origin_nonce
    IN  IF ~known
        THEN Rejected("NoSuchChainTip", conn)
        ELSE IF do_admission_checks /\ ~admits
        THEN Rejected("NotAdmitted", conn)
        ELSE try_add_tx(conn, consensus_hash, block_hash, TxidOf(tx), tx.tx_fee,
                        tx.length, height, origin_address, origin_nonce,
                        sponsor_address, sponsor_nonce, event_observer)

\* What estimate_fee_rate answers.
EstimatorResults == {"Ok", "NoEstimateAvailable", "CostError"}

\* submit, were an estimator without an estimate an error as any other.
submit_estimate_required(conn, consensus_hash, block_hash, tx, estimator_result, admits, event_observer) ==
    IF estimator_result # "Ok"
    THEN Rejected("EstimatorError", conn)
    ELSE tx_submit(conn, consensus_hash, block_hash, tx, TRUE, admits, event_observer)

\* submit: the transaction is rolled back unless tx_submit succeeds.
submit(conn, consensus_hash, block_hash, tx, estimator_result, admits, event_observer) ==
    IF estimator_result \notin {"Ok", "NoEstimateAvailable"}
    THEN Rejected("EstimatorError", conn)
    ELSE tx_submit(conn, consensus_hash, block_hash, tx, TRUE, admits, event_observer)

\* submit_raw on the bytes of tx: no admission check and no observer.
submit_raw(conn, consensus_hash, block_hash, tx, estimator_result) ==
    IF estimator_result \notin {"Ok", "NoEstimateAvailable"}
    THEN Rejected("Other", conn)
    ELSE tx_submit(conn, consensus_hash, block_hash, tx, FALSE, FALSE, FALSE)

\* drop_txs: DELETE FROM mempool WHERE txid = ?, for each of txids.
drop_txs(conn, txids) == { r \in conn : r.txid \notin txids }

\* The fee rates an estimator answers: a single one.  The rows with an
\* estimate then tie in ORDER BY f.fee_rate, and any of them may be the answer
\* of the query, as any would be the first under some choice of rates.
FeeRates == {MaxFee}

\* The fee_estimates table, were its foreign key without effect: the estimate
\* of a deleted row stays.
on_delete_no_action(estimates, conn) == estimates

\* FOREIGN KEY (txid) REFERENCES mempool (txid) ON DELETE CASCADE, on a
\* connection opened with foreign keys on: an estimate goes with its row.
on_delete_cascade(estimates, conn) == { e \in estimates : \E r \in conn : r.txid = e.txid }

\* INSERT OR REPLACE INTO fee_estimates(txid, fee_rate).
upsert_fee_estimate(estimates, id, fee_rate) ==
    { e \in estimates : e.txid # id } \cup {[txid |-> id, fee_rate |-> fee_rate]}

\* The fee_rate column of mempool LEFT JOIN fee_estimates for the row of id.
fee_rate_of(estimates, id) ==
    IF \E e \in estimates : e.txid = id
    THEN (CHOOSE e \in estimates : e.txid = id).fee_rate
    ELSE None

\* estimate_tx_rates: of the rows without a fee rate that the query gave it,
\* those of the txids in updated got an estimate, x, which is stored; the
\* others, without an estimate or with an error of the estimator, are skipped.
estimate_tx_rates(estimates, updated, x) ==
    { e \in estimates : e.txid \notin updated }
    \cup { [txid |-> id, fee_rate |-> Some(x)] : id \in updated }

----------------------------------------------------------------------------
\* The mempool store and its migration (src/core/mempool.rs)

\* mempool.sqlite before it is created.
NoDb == [exists |-> FALSE, tables |-> {}, columns |-> {}, indexes |-> {}, versions |-> {}]

\* The statements of a schema.  CREATE TABLE names a table and, for the mempool,
\* its columns; the INSERT is that of a row of schema_version.
CreateTable(name, columns) == [op |-> "CREATE TABLE", name |-> name, columns |-> columns]
AddColumn(name) == [op |-> "ADD COLUMN", name |-> name, columns |-> {}]
CreateIndex(name, table) == [op |-> "CREATE INDEX", name |-> name, columns |-> {table}]
InsertVersion(version) == [op |-> "INSERT", name |-> version, columns |-> {}]

MEMPOOL_INITIAL_SCHEMA ==
    <<CreateTable("mempool", {"txid", "origin_address", "origin_nonce", "sponsor_address",
                              "sponsor_nonce", "tx_fee", "length", "consensus_hash",
                              "block_header_hash", "height", "accept_time", "tx"}),
      CreateIndex("by_txid", "mempool"), CreateIndex("by_sponsor", "mempool"),
      CreateIndex("by_origin", "mempool"), CreateIndex("by_timestamp", "mempool"),
      CreateIndex("by_chaintip", "mempool")>>

MEMPOOL_SCHEMA_2 ==
    <<CreateTable("fee_estimates", {}),
      AddColumn("last_known_origin_nonce"), AddColumn("last_known_sponsor_nonce"),
      CreateIndex("fee_by_txid", "fee_estimates"),
      CreateTable("schema_version", {}), InsertVersion(2)>>

\* A statement or a batch that the database refuses.
DbError == [exists |-> TRUE, tables |-> {"error"}, columns |-> {}, indexes |-> {},
            versions |-> {}]

\* execute_batch of one statement: the database refuses a table, an index or a
\* column it has already, a column or an index of a table it has not, and a
\* second row of one version.
execute_batch(db, sql) ==
    IF db = DbError THEN DbError
    ELSE IF sql.op = "CREATE TABLE"
    THEN IF sql.name \in db.tables THEN DbError
         ELSE [db EXCEPT !.tables = @ \cup {sql.name}, !.columns = @ \cup sql.columns]
    ELSE IF sql.op = "ADD COLUMN"
    THEN IF "mempool" \notin db.tables \/ sql.name \in db.columns THEN DbError
         ELSE [db EXCEPT !.columns = @ \cup {sql.name}]
    ELSE IF sql.op = "CREATE INDEX"
    THEN IF sql.name \in db.indexes \/ ~(sql.columns \subseteq db.tables) THEN DbError
         ELSE [db EXCEPT !.indexes = @ \cup {sql.name}]
    ELSE IF "schema_version" \notin db.tables \/ sql.name \in db.versions THEN DbError
         ELSE [db EXCEPT !.versions = @ \cup {sql.name}]

\* The statements of a schema, one after the other.
RECURSIVE execute_schema(_, _)
execute_schema(db, schema) ==
    IF schema = <<>> THEN db
    ELSE execute_schema(execute_batch(db, Head(schema)), Tail(schema))

\* instantiate_mempool_db, in a transaction of its own.
instantiate_mempool_db(db) == execute_schema(db, MEMPOOL_INITIAL_SCHEMA)

\* The stores an open may find: none, one of version 1 and one of version 2.
InitialDb == instantiate_mempool_db([NoDb EXCEPT !.exists = TRUE])
MigratedDb == execute_schema(InitialDb, MEMPOOL_SCHEMA_2)

\* A get_schema_version that does not look at the schema_version table.
get_schema_version_unversioned(db) == None

\* get_schema_version: nothing without the table, else MAX(version).
get_schema_version(db) ==
    IF "schema_version" \notin db.tables THEN None
    ELSE IF db.versions = {} THEN None
    ELSE Some(CHOOSE v \in db.versions : \A w \in db.versions : w <= v)

\* apply_schema_2.
apply_schema_2(db) == execute_schema(db, MEMPOOL_SCHEMA_2)

\* MemPoolDB::open on the file: the database it leaves, whether it gave a
\* handle, and whether it applied the migration.  A transaction that fails is
\* rolled back.
open(db) ==
    LET created == IF db.exists THEN db
                   ELSE instantiate_mempool_db([db EXCEPT !.exists = TRUE])
        found == get_schema_version(created)
        version == IF found = None THEN 1 ELSE CHOOSE v \in found : TRUE
        migrated == IF version < 2 THEN apply_schema_2(created) ELSE created
    IN  IF created = DbError
        THEN [db |-> [db EXCEPT !.exists = TRUE], ok |-> FALSE, migrated |-> FALSE]
        ELSE IF migrated = DbError
        THEN [db |-> created, ok |-> FALSE, migrated |-> FALSE]
        ELSE [db |-> migrated, ok |-> TRUE, migrated |-> version < 2]

----------------------------------------------------------------------------
\* The mempool iterator (src/core/mempool.rs)

MaxWalkNonce == 1

\* The nonces of the transactions a walk is run over, and of the accounts.
WalkNonces == 0..MaxWalkNonce

\* MemPoolWalkSettings, without max_walk_time_ms: whether the deadline has
\* passed is asked of the clock at the top of each iteration.
MemPoolWalkSettings(min_tx_fee, consider_no_estimate_tx_prob) ==
    [min_tx_fee |-> min_tx_fee, consider_no_estimate_tx_prob |-> consider_no_estimate_tx_prob]

\* tx.auth.is_sponsored(), read off the row: the sponsor columns of a standard
\* transaction repeat its origin, and no sponsor is the origin itself.
is_sponsored(r) == r.sponsor_address # r.origin_address

\* One UPDATE of a last-known-nonce column.  "set" writes nonce into the column
\* of every row of the address; "bump" adds one where the column is not NULL.
Update(op, column, address, nonce) ==
    [op |-> op, column |-> column, address |-> address, nonce |-> nonce]

execute(conn, sql) ==
    { IF /\ sql.column = "origin"
         /\ r.origin_address = sql.address
         /\ (sql.op = "set" \/ r.last_known_origin_nonce # None)
      THEN [r EXCEPT !.last_known_origin_nonce =
                IF sql.op = "set" THEN Some(sql.nonce) ELSE { n + 1 : n \in @ }]
      ELSE IF /\ sql.column = "sponsor"
              /\ r.sponsor_address = sql.address
              /\ (sql.op = "set" \/ r.last_known_sponsor_nonce # None)
      THEN [r EXCEPT !.last_known_sponsor_nonce =
                IF sql.op = "set" THEN Some(sql.nonce) ELSE { n + 1 : n \in @ }]
      ELSE r : r \in conn }

\* The first done of the statements, one after the other.  No transaction
\* holds them together: when one fails, those before it stay.
RECURSIVE execute_all(_, _, _)
execute_all(conn, statements, done) ==
    IF done = 0 \/ statements = <<>>
    THEN conn
    ELSE execute_all(execute(conn, Head(statements)), Tail(statements), done - 1)

\* reset_last_known_nonces, were its UPDATE to match no row.
reset_last_known_nonces_kept(conn) == conn

\* reset_last_known_nonces: NULL in both columns of every row.
reset_last_known_nonces(conn) ==
    { [r EXCEPT !.last_known_origin_nonce = None, !.last_known_sponsor_nonce = None] :
        r \in conn }

\* The statements of bump_last_known_nonces(address).
bump_last_known_nonces(address) ==
    <<Update("bump", "origin", address, 0), Update("bump", "sponsor", address, 0)>>

\* update_last_known_nonces, were it to write the origin column alone.
update_last_known_origin_nonces(address, nonce) ==
    <<Update("set", "origin", address, nonce)>>

\* The statements of update_last_known_nonces(address, nonce).
update_last_known_nonces(address, nonce) ==
    <<Update("set", "origin", address, nonce), Update("set", "sponsor", address, nonce)>>

\* The WHERE clause the two candidate queries share.  A comparison with NULL
\* is not true.
ReadyToMine(r) ==
    \/ /\ r.origin_nonce \in r.last_known_origin_nonce
       /\ r.sponsor_nonce \in r.last_known_sponsor_nonce
    \/ r.last_known_origin_nonce = None
    \/ r.last_known_sponsor_nonce = None

\* get_next_tx_to_consider_no_estimate: ORDER BY tx_fee DESC LIMIT 1 among the
\* rows without a fee rate.  The rows the query may answer: any of those with
\* the highest fee; none when the set is empty.
get_next_tx_to_consider_no_estimate(conn, estimates) ==
    LET rows == { r \in conn : ReadyToMine(r) /\ fee_rate_of(estimates, r.txid) = None }
    IN  { r \in rows : \A o \in rows : o.tx_fee <= r.tx_fee }

\* get_next_tx_to_consider_with_estimate: ORDER BY f.fee_rate DESC LIMIT 1 among
\* the rows with a fee rate.
get_next_tx_to_consider_with_estimate(conn, estimates) ==
    LET rows == { r \in conn : ReadyToMine(r) /\ fee_rate_of(estimates, r.txid) # None }
    IN  { r \in rows : \A o \in rows : \A x \in fee_rate_of(estimates, o.txid) :
                          \A y \in fee_rate_of(estimates, r.txid) : x <= y }

\* ConsiderTransactionResult.
ConsiderTransactionResult(kind, addresses, tx, update_estimate) ==
    [kind |-> kind, addresses |-> addresses, tx |-> tx, update_estimate |-> update_estimate]

\* get_next_tx_to_consider: the results the call may give.
get_next_tx_to_consider(conn, estimates, start_with_no_estimate) ==
    LET no_estimate == get_next_tx_to_consider_no_estimate(conn, estimates)
        with_estimate == get_next_tx_to_consider_with_estimate(conn, estimates)
        from_no_estimate == IF start_with_no_estimate
                            THEN no_estimate # {}
                            ELSE with_estimate = {}
        found == IF from_no_estimate THEN no_estimate ELSE with_estimate
        needs_nonces(next_tx) ==
            (IF next_tx.last_known_origin_nonce = None
             THEN <<next_tx.origin_address>> ELSE <<>>)
            \o (IF next_tx.last_known_sponsor_nonce = None
                THEN <<next_tx.sponsor_address>> ELSE <<>>)
    IN  IF found = {}
        THEN {ConsiderTransactionResult("NoTransactions", <<>>, None, FALSE)}
        ELSE { IF needs_nonces(next_tx) # <<>>
               THEN ConsiderTransactionResult("UpdateNonces", needs_nonces(next_tx), None, FALSE)
               ELSE ConsiderTransactionResult("Consider", <<>>, Some(next_tx), from_no_estimate) :
               next_tx \in found }

\* The most UPDATE statements an arm of the loop runs: two for the origin and
\* two for the sponsor.
MaxStatements == 4

\* The statements of the UpdateNonces arm: update_last_known_nonces with the
\* nonce the chainstate holds, for each address but one that repeats the
\* address before it.
RefreshStatements(addresses, account_nonces) ==
    LET address(i) == addresses[i]
        skipped(i) == i > 1 /\ addresses[i - 1] = addresses[i]
        of(i) == IF skipped(i) THEN <<>>
                 ELSE update_last_known_nonces(address(i), account_nonces[address(i)])
    IN  IF Len(addresses) = 0 THEN <<>>
        ELSE IF Len(addresses) = 1 THEN of(1)
        ELSE of(1) \o of(2)

\* The statements after a visit that answered true: the origin's bump and, for
\* a sponsored transaction, the sponsor's.
BumpStatements(tx) ==
    bump_last_known_nonces(tx.origin_address)
    \o (IF is_sponsored(tx) THEN bump_last_known_nonces(tx.sponsor_address) ELSE <<>>)

----------------------------------------------------------------------------
\* The state machine

\* The block a row was made from.
BlockOf(r) == [height |-> r.height, header_hash |-> r.header_hash,
               parent_header_hash |-> r.parent_header_hash, time_stamp |-> r.time_stamp]

NoRet == [op |-> "new", outcome |-> "ok", block |-> {}, tip |-> {},
          is_canonical |-> FALSE, needs_reorg |-> FALSE, value |-> 0, first |-> 0,
          start |-> 0, end |-> 0, rows |-> <<>>]

\* The tasks of the runtime that serve the connections of POST /new_block.
Tasks == {"t1", "t2"}

\* No mempool call yet.
NoCall == [op |-> "open", outcome |-> "Ok", tx |-> {}, tip |-> {}, prior_tx |-> {},
           replace_reason |-> "", min_height |-> 0, txids |-> {},
           event_observer |-> FALSE, dropped |-> <<>>, removed |-> {},
           estimator_result |-> "", after |-> ""]

\* No iterate_candidates call yet.
NoWalk == [pc |-> "idle", settings |-> MemPoolWalkSettings(0, 0),
           account_nonces |-> [a \in Addresses |-> 0],
           remember_start_with_estimate |-> None, total_considered |-> 0,
           visited |-> <<>>, result |-> "Ok", failed |-> ""]

\* A task that handles no POST.
Idle == [pc |-> "idle", block |-> {}, tip |-> {}, is_canonical |-> FALSE,
         needs_reorg |-> FALSE]

\* DBBurnchainIndexer::new and the first connect(true): an empty table, no tip.
Init ==
    /\ headers = {}
    /\ last_canonical_tip = {}
    /\ ret = NoRet
    /\ headers2 = {}
    /\ in_flight = [t \in Tasks |-> Idle]
    /\ envelope = {}
    /\ block = {}
    /\ mempool = {}
    /\ mret = NoCall
    /\ fee_estimates = {}
    /\ walk = NoWalk
    /\ store = [db |-> MigratedDb, opened |-> TRUE, migrations |-> 1]

\* What the L1 node posts: one hash names one block, a block's height is its
\* parent's plus one, and a block is posted after its parent.  Hash 0 is the one
\* block the node is never sent, the parent of the first block it hears of; that
\* block's other children are the blocks that arrive with no parent in the table.
FitsL1Chain(hdrs, b) ==
    /\ b.parent_header_hash # b.header_hash
    /\ b.parent_header_hash # 0 => HasHeader(hdrs, b.parent_header_hash)
    /\ \A r \in hdrs :
        /\ r.header_hash = b.header_hash => BlockOf(r) = b
        /\ r.header_hash = b.parent_header_hash => b.height = r.height + 1
        /\ r.parent_header_hash = b.parent_header_hash => r.height = b.height

\* POST /new_block -> push_block
PushBlock(b) ==
    /\ FitsL1Chain(headers, b)
    /\ \E r \in {push_block(headers, b)} :
        /\ headers' = r.headers
        /\ ret' = [NoRet EXCEPT !.op = "push_block", !.outcome = r.outcome, !.block = {b},
                                !.tip = r.tip, !.is_canonical = r.is_canonical,
                                !.needs_reorg = r.needs_reorg, !.value = r.height]
    /\ UNCHANGED <<last_canonical_tip, headers2, in_flight, decoder_vars, mempool_vars>>

\* connect on the existing database (the node starts again)
Connect ==
    /\ last_canonical_tip' = get_canonical_chain_tip(headers)
    /\ ret' = [NoRet EXCEPT !.op = "connect"]
    /\ UNCHANGED <<headers, headers2, in_flight, decoder_vars, mempool_vars>>

FindChainReorg ==
    /\ \E r \in {find_chain_reorg(headers, last_canonical_tip)} :
        /\ last_canonical_tip' = r.last
        /\ ret' = [NoRet EXCEPT !.op = "find_chain_reorg", !.outcome = r.outcome,
                                !.tip = last_canonical_tip, !.value = r.height]
    /\ UNCHANGED <<headers, headers2, in_flight, decoder_vars, mempool_vars>>

ReadHeaders(start_block, end_block) ==
    /\ \E rows \in read_headers(headers, start_block, end_block) :
          ret' = [NoRet EXCEPT !.op = "read_headers", !.start = start_block,
                               !.end = end_block, !.rows = rows]
    /\ UNCHANGED <<headers, last_canonical_tip, headers2, in_flight, decoder_vars, mempool_vars>>

\* sync_headers ignores both heights and answers with the highest height known.
SyncHeaders ==
    /\ \E r \in {sync_headers(headers)} :
          ret' = [NoRet EXCEPT !.op = "sync_headers", !.outcome = r.outcome,
                               !.value = r.height]
    /\ UNCHANGED <<headers, last_canonical_tip, headers2, in_flight, decoder_vars, mempool_vars>>

DropHeaders(new_height) ==
    /\ headers' = drop_headers(headers, new_height)
    /\ ret' = [NoRet EXCEPT !.op = "drop_headers"]
    /\ UNCHANGED <<last_canonical_tip, headers2, in_flight, decoder_vars, mempool_vars>>

Next ==
    \/ \E b \in BlockHeaders : PushBlock(b)
    \/ Connect
    \/ FindChainReorg
    \/ \E s \in Heights : \E e \in s..(MaxHeight + 1) : ReadHeaders(s, e)
    \/ SyncHeaders
    \/ \E h \in Heights : DropHeaders(h)

Spec == Init /\ [][Next]_vars

----------------------------------------------------------------------------
\* The ingest channel alone (DBBurnBlockInputChannel holds nothing but the path
\* of the table)

NextIngest == \E b \in BlockHeaders : PushBlock(b)

SpecIngest == Init /\ [][NextIngest]_vars

----------------------------------------------------------------------------
\* The ingest channel when a hash it has stored is posted again, with any
\* height and parent (the primary key of the table is the hash alone)

PushBlockAgain(b) ==
    /\ HasHeader(headers, b.header_hash)
    /\ \E r \in {push_block(headers, b)} :
        /\ headers' = r.headers
        /\ ret' = [NoRet EXCEPT !.op = "push_block_again", !.outcome = r.outcome,
                                !.is_canonical = r.is_canonical,
                                !.needs_reorg = r.needs_reorg, !.value = r.height]
    /\ UNCHANGED <<last_canonical_tip, headers2, in_flight, decoder_vars, mempool_vars>>

NextIngestAgain ==
    \/ \E b \in BlockHeaders : PushBlock(b)
    \/ \E b \in BlockHeaders : PushBlockAgain(b)

SpecIngestAgain == Init /\ [][NextIngestAgain]_vars

----------------------------------------------------------------------------
\* The ingest channel and the indexer's questions about the first burn block

GetFirstBlockHeight ==
    /\ \E r \in {get_first_block_height(headers)} :
          ret' = [NoRet EXCEPT !.op = "get_first_block_height", !.outcome = r.outcome,
                               !.value = r.value]
    /\ UNCHANGED <<headers, last_canonical_tip, headers2, in_flight, decoder_vars, mempool_vars>>

GetFirstBlockHeaderHash ==
    /\ \E r \in {get_first_block_header_hash(headers)} :
          ret' = [NoRet EXCEPT !.op = "get_first_block_header_hash", !.outcome = r.outcome,
                               !.value = r.value]
    /\ UNCHANGED <<headers, last_canonical_tip, headers2, in_flight, decoder_vars, mempool_vars>>

GetFirstBlockHeaderTimestamp ==
    /\ \E r \in {get_first_block_header_timestamp(headers)} :
          ret' = [NoRet EXCEPT !.op = "get_first_block_header_timestamp",
                               !.outcome = r.outcome, !.value = r.value]
    /\ UNCHANGED <<headers, last_canonical_tip, headers2, in_flight, decoder_vars, mempool_vars>>

NextFirstBlock ==
    \/ \E b \in BlockHeaders : PushBlock(b)
    \/ GetFirstBlockHeight
    \/ GetFirstBlockHeaderHash
    \/ GetFirstBlockHeaderTimestamp

SpecFirstBlock == Init /\ [][NextFirstBlock]_vars

----------------------------------------------------------------------------
\* The ingest channel and the indexer's reorg cursor

NextIndexer ==
    \/ \E b \in BlockHeaders : PushBlock(b)
    \/ Connect
    \/ FindChainReorg

SpecIndexer == Init /\ [][NextIndexer]_vars

----------------------------------------------------------------------------
\* The same node when every block but the first comes after its parent

ParentFirst(hdrs, b) ==
    /\ ~HasHeader(hdrs, b.header_hash)
    /\ IF b.parent_header_hash = 0 THEN hdrs = {} ELSE HasHeader(hdrs, b.parent_header_hash)

PushBlockInOrder(b) == ParentFirst(headers, b) /\ PushBlock(b)

NextInOrder ==
    \/ \E b \in BlockHeaders : PushBlockInOrder(b)
    \/ Connect
    \/ FindChainReorg
    \/ \E s \in Heights : \E e \in s..(MaxHeight + 1) : ReadHeaders(s, e)

SpecInOrder == Init /\ [][NextInOrder]_vars

----------------------------------------------------------------------------
\* The reorg of the last push_block run once more on the table it left, with
\* every block pushed after its parent

ReorgAgain ==
    /\ ret.op = "push_block" /\ ret.needs_reorg /\ ret.outcome = "ok"
    /\ \E new_tip \in ret.block : \E old_tip \in ret.tip :
       \E r \in {process_reorg(headers, new_tip, old_tip)} :
           /\ headers' = r.headers
           /\ ret' = [ret EXCEPT !.op = "process_reorg", !.outcome = r.outcome,
                                 !.value = r.height, !.first = ret.value]
    /\ UNCHANGED <<last_canonical_tip, headers2, in_flight, decoder_vars, mempool_vars>>

NextReorgTwice ==
    \/ \E b \in BlockHeaders : PushBlockInOrder(b)
    \/ ReorgAgain

SpecReorgTwice == Init /\ [][NextReorgTwice]_vars

----------------------------------------------------------------------------
\* Two nodes sent the same blocks, each in an order of its own in which every
\* block but the first comes after its parent

PushBlock2(b) ==
    /\ b \in { BlockOf(r) : r \in headers }
    /\ ParentFirst(headers2, b)
    /\ headers2' = push_block(headers2, b).headers
    /\ ret' = [ret EXCEPT !.op = "push_block_2", !.rows = <<b>>]
    /\ UNCHANGED <<headers, last_canonical_tip, in_flight, decoder_vars, mempool_vars>>

NextTwoOrders ==
    \/ \E b \in BlockHeaders : PushBlockInOrder(b)
    \/ \E b \in BlockHeaders : PushBlock2(b)

SpecTwoOrders == Init /\ [][NextTwoOrders]_vars

----------------------------------------------------------------------------
\* The observer's server: warp serves every connection in a task of its own on
\* the tokio runtime, handle_new_block takes no lock, and push_block opens a
\* connection of its own and runs its statements outside any transaction.  A
\* task's push_block is three steps here: the SELECT of the tip with the
\* decision, the INSERT, the reorg walk (taken as one step).  Every block is
\* posted after its parent is stored.

\* The POST arrives: open the connection, read the tip, decide.
ReceiveBlock(t, b) ==
    /\ in_flight[t].pc = "idle"
    /\ ParentFirst(headers, b) /\ FitsL1Chain(headers, b)
    /\ \A u \in Tasks \ {t} :
          in_flight[u].pc # "idle" => (b \notin in_flight[u].block /\ b.parent_header_hash # 0)
    /\ LET current_canonical_tip_opt == get_canonical_chain_tip(headers)
           decision == PushDecision(current_canonical_tip_opt, b)
       IN  in_flight' = [in_flight EXCEPT ![t] =
               [pc |-> "insert", block |-> {b}, tip |-> current_canonical_tip_opt,
                is_canonical |-> decision[1], needs_reorg |-> decision[2]]]
    /\ ret' = [NoRet EXCEPT !.op = "handle_new_block", !.block = {b}]
    /\ UNCHANGED <<headers, last_canonical_tip, headers2, decoder_vars, mempool_vars>>

\* INSERT INTO headers; without a reorg the call returns here.
InsertBlock(t) ==
    /\ in_flight[t].pc = "insert"
    /\ LET me == in_flight[t]
           b == CHOOSE x \in me.block : TRUE
           done == [NoRet EXCEPT !.op = "push_block", !.block = me.block, !.tip = me.tip,
                                 !.is_canonical = me.is_canonical,
                                 !.needs_reorg = me.needs_reorg]
       IN  IF HasHeader(headers, b.header_hash)
           THEN /\ headers' = headers
                /\ in_flight' = [in_flight EXCEPT ![t] = Idle]
                /\ ret' = [done EXCEPT !.outcome = "err"]
           ELSE /\ headers' = InsertHeader(headers, b, IF me.is_canonical THEN 1 ELSE 0)
                /\ IF me.needs_reorg
                   THEN /\ in_flight' = [in_flight EXCEPT ![t].pc = "reorg"]
                        /\ ret' = [NoRet EXCEPT !.op = "insert", !.block = me.block]
                   ELSE /\ in_flight' = [in_flight EXCEPT ![t] = Idle]
                        /\ ret' = done
    /\ UNCHANGED <<last_canonical_tip, headers2, decoder_vars, mempool_vars>>

\* process_reorg from the tip read at the start, then the call returns.
ReorgBlock(t) ==
    /\ in_flight[t].pc = "reorg"
    /\ LET me == in_flight[t] IN
       \E new_tip \in me.block : \E old_tip \in me.tip :
       \E r \in {process_reorg(headers, new_tip, old_tip)} :
           /\ headers' = r.headers
           /\ ret' = [NoRet EXCEPT !.op = "push_block", !.outcome = r.outcome,
                                   !.block = me.block, !.tip = me.tip,
                                   !.is_canonical = me.is_canonical,
                                   !.needs_reorg = me.needs_reorg, !.value = r.height]
    /\ in_flight' = [in_flight EXCEPT ![t] = Idle]
    /\ UNCHANGED <<last_canonical_tip, headers2, decoder_vars, mempool_vars>>

NextObserver ==
    \/ \E t \in Tasks : \E b \in BlockHeaders : ReceiveBlock(t, b)
    \/ \E t \in Tasks : InsertBlock(t)
    \/ \E t \in Tasks : ReorgBlock(t)

SpecObserver == Init /\ [][NextObserver]_vars

----------------------------------------------------------------------------
\* The event decoder (src/burnchains/events.rs)

\* The longest events list of an envelope.
MaxEvents == 2

Txids == {"tx1", "tx2"}
BlockIds == {"b1", "b2"}

\* The contract the subnet is governed by, and any other contract.
subnets_contract == "subnet"
Contracts == {subnets_contract, "other"}

\* A usize event_index, as hi * 2^32 + lo.
EventIndexes == [hi : 0..1, lo : 0..1]

\* event_index.try_into() for u32: None above u32::MAX.
try_into_u32(event_index) == IF event_index.hi = 0 THEN {event_index.lo} ELSE {}

\* The tags the subnet contract prints.
Tags == {"block-commit", "deposit-stx", "deposit-ft", "deposit-nft",
         "withdraw-stx", "withdraw-ft", "withdraw-nft", "register-asset"}

\* Clarity values, as far as the decoder looks into them.
UIntValue == [type |-> "uint", s |-> "", len |-> 0, data |-> <<>>]
StringAscii(str) == [type |-> "string-ascii", s |-> str, len |-> 0, data |-> <<>>]
StringUtf8(str) == [type |-> "string-utf8", s |-> str, len |-> 0, data |-> <<>>]
Buffer(length, bytes) == [type |-> "buffer", s |-> "", len |-> length, data |-> bytes]

\* A tuple is its fields by name; any other top-level value has kind "uint".
Tuple(fields) == [kind |-> "tuple", fields |-> fields]
NotATuple == [kind |-> "uint", fields |-> [f \in {} |-> UIntValue]]

\* Display of a Clarity string: ASCII in quotes, UTF-8 in quotes after a u.
to_string(clar_str) ==
    IF clar_str.type = "string-ascii" THEN "\"" \o clar_str.s \o "\""
    ELSE "u\"" \o clar_str.s \o "\""

Err(msg) == [ok |-> FALSE, op |-> {}, err |-> msg]

\* StacksHyperOp::try_from_clar_value
try_from_clar_value(v, txid, event_index, in_block) ==
    IF v.kind # "tuple" THEN Err("Expected Clarity type to be tuple")
    ELSE IF "event" \notin DOMAIN v.fields THEN Err("No 'event' field in Clarity tuple")
    ELSE IF v.fields["event"].type \notin {"string-ascii", "string-utf8"}
         THEN Err("Expected 'event' type to be string")
    ELSE IF to_string(v.fields["event"]) # "\"block-commit\""
         THEN Err("Unexpected 'event' string")
    ELSE IF "block-commit" \notin DOMAIN v.fields
         THEN Err("No 'block-commit' field in Clarity tuple")
    ELSE IF v.fields["block-commit"].type # "buffer"
         THEN Err("Expected 'block-commit' type to be buffer")
    ELSE IF v.fields["block-commit"].len # 32
         THEN Err("Expected 'block-commit' type to be length 32")
    ELSE [ok |-> TRUE, err |-> "",
          op |-> {[txid |-> txid, event_index |-> event_index, in_block |-> in_block,
                   opcode |-> 0,
                   event |-> [type |-> "BlockCommit",
                              subnet_block_hash |-> v.fields["block-commit"].data]]}]

\* The closure of from_new_block_event that takes uncommitted events too.
DecodeEventUncommitted(contract, e, index_block_hash) ==
    IF e.event_type # "contract_event" THEN {}
    ELSE IF try_into_u32(e.event_index) = {} THEN {}
    ELSE IF e.contract_event = {} THEN {}
    ELSE LET contract_event == CHOOSE c \in e.contract_event : TRUE
             event_index == CHOOSE x \in try_into_u32(e.event_index) : TRUE
         IN  IF contract_event.contract_identifier # contract THEN {}
             ELSE try_from_clar_value(contract_event.value, e.txid, event_index,
                                      index_block_hash).op

\* The closure of from_new_block_event: the op of one event, or none.
DecodeEvent(contract, e, index_block_hash) ==
    IF ~e.committed THEN {}
    ELSE IF e.event_type # "contract_event" THEN {}
    ELSE IF try_into_u32(e.event_index) = {} THEN {}
    ELSE IF e.contract_event = {} THEN {}
    ELSE LET contract_event == CHOOSE c \in e.contract_event : TRUE
             event_index == CHOOSE x \in try_into_u32(e.event_index) : TRUE
         IN  IF contract_event.contract_identifier # contract THEN {}
             ELSE try_from_clar_value(contract_event.value, e.txid, event_index,
                                      index_block_hash).op

RECURSIVE FilterMapNewestFirst(_, _, _)
\* filter_map that puts every op in front of the ops collected so far.
FilterMapNewestFirst(contract, events, index_block_hash) ==
    IF events = <<>> THEN <<>>
    ELSE LET x == DecodeEvent(contract, Head(events), index_block_hash)
             rest == FilterMapNewestFirst(contract, Tail(events), index_block_hash)
         IN  IF x = {} THEN rest ELSE rest \o <<CHOOSE o \in x : TRUE>>

RECURSIVE FilterMap(_, _, _)
\* events.into_iter().filter_map(..).collect()
FilterMap(contract, events, index_block_hash) ==
    IF events = <<>> THEN <<>>
    ELSE LET x == DecodeEvent(contract, Head(events), index_block_hash)
             rest == FilterMap(contract, Tail(events), index_block_hash)
         IN  IF x = {} THEN rest ELSE <<CHOOSE o \in x : TRUE>> \o rest

\* StacksHyperBlock::from_new_block_event
from_new_block_event(contract, b) ==
    [current_block |-> b.index_block_hash,
     parent_block |-> b.parent_index_block_hash,
     block_height |-> b.block_height,
     ops |-> FilterMap(contract, b.events, b.index_block_hash)]

\* The envelopes the decoder is given.  An event is a well-formed block-commit
\* of the governing contract, or that event with one thing about it changed.

CommitFields(tag, commit) ==
    [f \in {"event", "block-commit"} |-> IF f = "event" THEN tag ELSE commit]

\* The print of an operation other than block-commit: its tag and its arguments.
OtherFields(tag) ==
    [f \in {"event", "args"} |-> IF f = "event" THEN StringAscii(tag) ELSE UIntValue]

\* The 32 bytes of a commit, told apart by the event that carries them.
CommitBytes(txid, lo) == <<txid, lo>>

TxEvent(txid, event_index, committed, event_type, contract_event) ==
    [txid |-> txid, event_index |-> event_index, committed |-> committed,
     event_type |-> event_type, contract_event |-> contract_event]

ContractEvent(contract_identifier, value) ==
    {[contract_identifier |-> contract_identifier, value |-> value]}

Governed(txid, lo, value) ==
    TxEvent(txid, [hi |-> 0, lo |-> lo], TRUE, "contract_event",
            ContractEvent(subnets_contract, value))

CommitValue(txid, lo) ==
    Tuple(CommitFields(StringAscii("block-commit"), Buffer(32, CommitBytes(txid, lo))))

EventOf(shape, txid, lo) ==
    LET good == Governed(txid, lo, CommitValue(txid, lo))
        commit == Buffer(32, CommitBytes(txid, lo))
        tag == StringAscii("block-commit")
    IN  CASE shape = "block-commit" -> good
          [] shape \in Tags \ {"block-commit"} -> Governed(txid, lo, Tuple(OtherFields(shape)))
          [] shape = "uncommitted" -> [good EXCEPT !.committed = FALSE]
          [] shape = "other-type" -> [good EXCEPT !.event_type = "other"]
          [] shape = "no-contract-event" -> [good EXCEPT !.contract_event = {}]
          [] shape = "other-contract" ->
                [good EXCEPT !.contract_event = ContractEvent("other", CommitValue(txid, lo))]
          [] shape = "index-above-u32" -> [good EXCEPT !.event_index = [hi |-> 1, lo |-> lo]]
          [] shape = "not-tuple" -> Governed(txid, lo, NotATuple)
          [] shape = "no-event-field" ->
                Governed(txid, lo, Tuple([f \in {"block-commit"} |-> commit]))
          [] shape = "event-not-string" ->
                Governed(txid, lo, Tuple(CommitFields(UIntValue, commit)))
          [] shape = "event-utf8" ->
                Governed(txid, lo, Tuple(CommitFields(StringUtf8("block-commit"), commit)))
          [] shape = "unknown-tag" -> Governed(txid, lo, Tuple(OtherFields("hello")))
          [] shape = "no-block-commit-field" ->
                Governed(txid, lo, Tuple([f \in {"event"} |-> tag]))
          [] shape = "block-commit-not-buffer" ->
                Governed(txid, lo, Tuple(CommitFields(tag, UIntValue)))
          [] shape = "short-buffer" ->
                Governed(txid, lo, Tuple(CommitFields(tag, Buffer(31, CommitBytes(txid, lo)))))
          [] shape = "long-buffer" ->
                Governed(txid, lo, Tuple(CommitFields(tag, Buffer(33, CommitBytes(txid, lo)))))

\* The shapes of the events of the longer envelopes, and all shapes.
ShapesInSequence ==
    {"block-commit", "deposit-stx", "uncommitted", "other-type", "other-contract",
     "index-above-u32", "not-tuple", "no-event-field", "event-not-string",
     "no-block-commit-field", "block-commit-not-buffer", "short-buffer"}

AllShapes ==
    Tags \cup ShapesInSequence \cup
        {"no-contract-event", "event-utf8", "unknown-tag", "long-buffer"}

EventsOf(shapes) == { EventOf(shape, txid, lo) : shape \in shapes, txid \in Txids, lo \in 0..1 }

\* POST /new_block: the envelope's own fields arrive, no events read yet.
StartEnvelope(id) ==
    /\ envelope = {}
    /\ envelope' = {[block_height |-> IF id = "b1" THEN 1 ELSE 2,
                     burn_block_time |-> 0,
                     index_block_hash |-> id,
                     parent_index_block_hash |-> CHOOSE x \in BlockIds : x # id,
                     events |-> <<>>]}
    /\ UNCHANGED <<indexer_vars, block, mempool_vars>>

\* One more event of the envelope.
AddEvent(e) ==
    /\ block = {}
    /\ \E b \in envelope :
          /\ Len(b.events) < MaxEvents
          /\ envelope' = {[b EXCEPT !.events = Append(b.events, e)]}
    /\ UNCHANGED <<indexer_vars, block, mempool_vars>>

\* An envelope of one event.
AddOnlyEvent(e) ==
    /\ \E b \in envelope : b.events = <<>>
    /\ AddEvent(e)

\* StacksHyperBlock::from_new_block_event(subnets_contract, envelope)
Decode ==
    /\ block = {}
    /\ \E b \in envelope : block' = {from_new_block_event(subnets_contract, b)}
    /\ UNCHANGED <<indexer_vars, envelope, mempool_vars>>

NextDecoder ==
    \/ \E id \in BlockIds : StartEnvelope(id)
    \/ \E e \in EventsOf(ShapesInSequence) : AddEvent(e)
    \/ Decode

SpecDecoder == Init /\ [][NextDecoder]_vars

NextDispatch ==
    \/ \E id \in BlockIds : StartEnvelope(id)
    \/ \E e \in EventsOf(AllShapes) : AddOnlyEvent(e)
    \/ Decode

SpecDispatch == Init /\ [][NextDispatch]_vars

----------------------------------------------------------------------------
\* The mempool calls

\* The calls below and iterate_candidates take the handle by &mut self: one
\* starts when the one before it has returned, and walk then holds no call.

\* The heights garbage_collect is called with.
MinHeights == 0..2

\* The fee_estimates table after tx_submit answered r: the rows that went with
\* the replaced rows of the mempool are gone, and the estimate of tx is stored,
\* NULL when the estimator had none.  A rejected submission is rolled back.
StoreEstimate(r, tx, estimator_result, x) ==
    IF r.outcome = "Ok"
    THEN upsert_fee_estimate(on_delete_cascade(fee_estimates, r.mempool), TxidOf(tx),
                             IF estimator_result = "Ok" THEN Some(x) ELSE None)
    ELSE fee_estimates

\* MemPoolDB::submit of tx at tip.
Submit(tx, tip, estimator_result, admits, event_observer) ==
    /\ walk.pc = "idle"
    /\ walk' = NoWalk
    /\ \E r \in {submit(mempool, tip.consensus_hash, tip.block_header_hash, tx,
                        estimator_result, admits, event_observer)} :
        /\ mempool' = r.mempool
        /\ \E x \in IF estimator_result = "Ok" THEN FeeRates ELSE {0} :
               fee_estimates' = StoreEstimate(r, tx, estimator_result, x)
        /\ mret' = [NoCall EXCEPT !.op = "submit", !.outcome = r.outcome, !.tx = {tx},
                                  !.tip = {tip}, !.prior_tx = r.prior_tx,
                                  !.replace_reason = r.replace_reason,
                                  !.event_observer = event_observer,
                                  !.dropped = r.dropped, !.removed = mempool \ r.mempool,
                                  !.estimator_result = estimator_result]
    /\ UNCHANGED <<indexer_vars, decoder_vars, store>>

\* MemPoolDB::submit_raw of the bytes of tx at tip.
SubmitRaw(tx, tip, estimator_result) ==
    /\ walk.pc = "idle"
    /\ walk' = NoWalk
    /\ \E r \in {submit_raw(mempool, tip.consensus_hash, tip.block_header_hash, tx,
                            estimator_result)} :
        /\ mempool' = r.mempool
        /\ \E x \in IF estimator_result = "Ok" THEN FeeRates ELSE {0} :
               fee_estimates' = StoreEstimate(r, tx, estimator_result, x)
        /\ mret' = [NoCall EXCEPT !.op = "submit_raw", !.outcome = r.outcome, !.tx = {tx},
                                  !.tip = {tip}, !.prior_tx = r.prior_tx,
                                  !.replace_reason = r.replace_reason,
                                  !.removed = mempool \ r.mempool,
                                  !.estimator_result = estimator_result]
    /\ UNCHANGED <<indexer_vars, decoder_vars, store>>

\* MemPoolDB::garbage_collect, committed by its caller.
GarbageCollect(min_height, event_observer) ==
    /\ walk.pc = "idle"
    /\ walk' = NoWalk
    /\ \E r \in {garbage_collect(mempool, min_height, event_observer)} :
        /\ mempool' = r.mempool
        /\ fee_estimates' = on_delete_cascade(fee_estimates, r.mempool)
        /\ mret' = [NoCall EXCEPT !.op = "garbage_collect", !.min_height = min_height,
                                  !.event_observer = event_observer,
                                  !.dropped = r.dropped, !.removed = mempool \ r.mempool]
    /\ UNCHANGED <<indexer_vars, decoder_vars, store>>

\* MemPoolDB::drop_txs.
DropTxs(txids) ==
    /\ walk.pc = "idle"
    /\ walk' = NoWalk
    /\ mempool' = drop_txs(mempool, txids)
    /\ fee_estimates' = on_delete_cascade(fee_estimates, drop_txs(mempool, txids))
    /\ mret' = [NoCall EXCEPT !.op = "drop_txs", !.txids = txids,
                              !.removed = mempool \ drop_txs(mempool, txids)]
    /\ UNCHANGED <<indexer_vars, decoder_vars, store>>

\* MemPoolDB::estimate_tx_rates(max_updates): SELECT ... WHERE f.fee_rate IS
\* NULL LIMIT max_updates gives any max_updates of the rows without a fee
\* rate, and the estimator has an estimate for any of them.
EstimateTxRates(max_updates) ==
    /\ walk.pc = "idle"
    /\ walk' = NoWalk
    /\ \E updated \in SUBSET { r.txid : r \in { o \in mempool :
                                     fee_rate_of(fee_estimates, o.txid) = None } } :
       \E x \in FeeRates :
           /\ Cardinality(updated) <= max_updates
           /\ fee_estimates' = estimate_tx_rates(fee_estimates, updated, x)
           /\ mret' = [NoCall EXCEPT !.op = "estimate_tx_rates", !.txids = updated]
    /\ UNCHANGED <<indexer_vars, decoder_vars, store, mempool>>

\* The calls on one mempool.  The submitted transactions are those that the
\* estimator and the admitter let through, at the tips the chainstate holds: a
\* call that fails before try_add_tx leaves the table as it is.  submit is
\* given an observer; submit_raw gives none to tx_submit.
NextMempool ==
    \/ \E tx \in Transactions, tip \in StacksBlocks :
           Submit(tx, tip, "NoEstimateAvailable", TRUE, TRUE)
    \/ \E tx \in Transactions, tip \in StacksBlocks : SubmitRaw(tx, tip, "NoEstimateAvailable")
    \/ \E min_height \in MinHeights, event_observer \in BOOLEAN :
           GarbageCollect(min_height, event_observer)
    \/ \E txids \in (SUBSET { r.txid : r \in mempool })
                    \cup { {TxidOf(tx)} : tx \in Transactions } : DropTxs(txids)

SpecMempool == Init /\ [][NextMempool]_vars

----------------------------------------------------------------------------
\* Submissions that the estimator, the chainstate or the admitter may refuse

\* The transactions submitted: the standard ones of one length.
SubmitTransactions == { tx \in Transactions : tx.length = 1 /\ tx.sponsor = None }

\* The tips of the submissions: the first block and a child of it, which the
\* chainstate holds, and two blocks it does not hold, one of them under the
\* consensus hash of the first block.
SubmitTips ==
    {FirstStacksBlock, Tip("ch1", "bh1"),
     Tip(FIRST_BURNCHAIN_CONSENSUS_HASH, "bh9"), Tip("ch9", "bh9")}

NextSubmit ==
    \/ \E tx \in SubmitTransactions, tip \in SubmitTips,
          estimator_result \in EstimatorResults, admits \in BOOLEAN :
           Submit(tx, tip, estimator_result, admits, TRUE)
    \/ \E min_height \in {1} : GarbageCollect(min_height, TRUE)
    \/ \E tx \in SubmitTransactions : DropTxs({TxidOf(tx)})
    \/ \E max_updates \in 0..1 : EstimateTxRates(max_updates)

SpecSubmit == Init /\ [][NextSubmit]_vars

----------------------------------------------------------------------------
\* Opening the store

\* The rows a store holds when it is found: standard transactions accepted at
\* the first block, one to a slot.
StoredRows ==
    { rows \in SUBSET { MemPoolRow(TxidOf(tx), tx.origin_address, tx.origin_nonce,
                                   tx.origin_address, tx.origin_nonce, tx.tx_fee, tx.length,
                                   FirstStacksBlock.consensus_hash,
                                   FirstStacksBlock.block_header_hash, 0) :
                        tx \in SubmitTransactions } :
        \A r, o \in rows : r.origin_address = o.origin_address => r = o }

\* A node starts on no store, on the store of an earlier version or on the
\* store of this one.
InitOpen ==
    /\ headers = {}
    /\ last_canonical_tip = {}
    /\ ret = NoRet
    /\ headers2 = {}
    /\ in_flight = [t \in Tasks |-> Idle]
    /\ envelope = {}
    /\ block = {}
    /\ mret = NoCall
    /\ walk = NoWalk
    /\ store \in { [db |-> db, opened |-> FALSE, migrations |-> 0] :
                      db \in {NoDb, InitialDb, MigratedDb} }
    /\ mempool \in IF store.db = NoDb THEN {{}} ELSE StoredRows
    /\ fee_estimates \in IF store.db = MigratedDb
                         THEN { { [txid |-> r.txid, fee_rate |-> None] : r \in mempool },
                                { [txid |-> r.txid, fee_rate |-> Some(MaxFee)] : r \in mempool } }
                         ELSE {{}}

\* MemPoolDB::open.
Open ==
    /\ walk.pc = "idle"
    /\ \E r \in {open(store.db)} :
        /\ store' = [db |-> r.db, opened |-> store.opened \/ r.ok,
                     migrations |-> store.migrations + IF r.migrated THEN 1 ELSE 0]
        /\ mret' = [NoCall EXCEPT !.op = "open",
                                  !.outcome = IF r.ok THEN "Ok" ELSE "Err"]
    /\ UNCHANGED <<indexer_vars, decoder_vars, mempool, fee_estimates, walk>>

\* The calls on a store: it is opened, and the handle takes submissions.
NextOpen ==
    \/ Open
    \/ /\ store.opened
       /\ \E tx \in SubmitTransactions, estimator_result \in {"Ok", "NoEstimateAvailable"} :
              SubmitRaw(tx, FirstStacksBlock, estimator_result)

SpecOpen == InitOpen /\ [][NextOpen]_vars

----------------------------------------------------------------------------
\* The walks of the iterator

\* The transactions the walks run over, of one length: the standard
\* transactions of account 1, and the transactions of the other accounts at
\* nonce 0 and the lowest fee, standard or sponsored by account 1.
WalkTransactions ==
    { tx \in [origin_address : Addresses, origin_nonce : WalkNonces,
              sponsor : {None} \cup { Some(s) : s \in [address : {1}, nonce : WalkNonces] },
              tx_fee : Fees, length : {1}] :
        IF tx.origin_address = 1
        THEN tx.sponsor = None
        ELSE tx.origin_nonce = 0 /\ tx.tx_fee = 1 }

\* The settings a walk is given.
WalkSettings ==
    { MemPoolWalkSettings(min_tx_fee, prob) : min_tx_fee \in {MaxFee}, prob \in {25} }

\* The nonces the chainstate holds for the accounts.
AccountNonces == { [a \in Addresses |-> IF a = 1 THEN n ELSE 0] : n \in WalkNonces }

\* What visit_fn answers.
Answers == {"true", "false", "Err"}

\* tx_consideration_sampler.sample(&mut rng) < consider_no_estimate_tx_prob, for
\* a sample of 0..99, unless the iteration before remembered its choice.
StartWithNoEstimate ==
    IF walk.remember_start_with_estimate # None
    THEN walk.remember_start_with_estimate
    ELSE { b \in BOOLEAN : IF b THEN walk.settings.consider_no_estimate_tx_prob > 0
                                 ELSE walk.settings.consider_no_estimate_tx_prob < 100 }

\* iterate_candidates returns.
Return(result) == [walk EXCEPT !.pc = "idle", !.result = result]

\* An operation of the iteration failed and the error is logged: the loop goes
\* on with the next candidate.
FailSwallowed(w, operation) == [w EXCEPT !.failed = operation]

\* An operation of the iteration failed: the ? after it returns the error to
\* the caller of iterate_candidates.
Fail(w, operation) == [w EXCEPT !.pc = "idle", !.result = "Err", !.failed = operation]

\* reset_last_known_nonces, between two walks.
ResetLastKnownNonces ==
    /\ walk.pc = "idle"
    /\ walk' = NoWalk
    /\ mempool' = reset_last_known_nonces(mempool)
    /\ mret' = [NoCall EXCEPT !.op = "reset_last_known_nonces"]
    /\ UNCHANGED <<indexer_vars, decoder_vars, store, fee_estimates>>

\* iterate_candidates is called.
StartWalk(settings, account_nonces) ==
    /\ walk.pc = "idle"
    /\ walk' = [NoWalk EXCEPT !.pc = "loop", !.settings = settings,
                              !.account_nonces = account_nonces]
    /\ mret' = [NoCall EXCEPT !.op = "iterate_candidates"]
    /\ UNCHANGED <<indexer_vars, decoder_vars, store, mempool, fee_estimates>>

\* The top of the loop finds the deadline passed.
DeadlineExceeded ==
    /\ walk.pc = "loop"
    /\ walk' = Return("Ok")
    /\ UNCHANGED <<indexer_vars, decoder_vars, store, mempool, mret, fee_estimates>>

\* get_next_tx_to_consider answers an error of the database.
QueryFails ==
    /\ walk.pc = "loop"
    /\ walk' = Fail(walk, "get_next_tx_to_consider")
    /\ UNCHANGED <<indexer_vars, decoder_vars, store, mempool, mret, fee_estimates>>

\* The NoTransactions arm.
NoTransactions ==
    /\ walk.pc = "loop"
    /\ \E start_with_no_estimate \in StartWithNoEstimate :
       \E c \in get_next_tx_to_consider(mempool, fee_estimates, start_with_no_estimate) :
           c.kind = "NoTransactions"
    /\ walk' = Return("Ok")
    /\ UNCHANGED <<indexer_vars, decoder_vars, store, mempool, mret, fee_estimates>>

\* The UpdateNonces arm, of whose statements the first done succeed.
UpdateNonces(done) ==
    /\ walk.pc = "loop"
    /\ \E start_with_no_estimate \in StartWithNoEstimate :
       \E c \in get_next_tx_to_consider(mempool, fee_estimates, start_with_no_estimate) :
       \E statements \in {RefreshStatements(c.addresses, walk.account_nonces)} :
           /\ c.kind = "UpdateNonces"
           /\ done <= Len(statements)
           /\ mempool' = execute_all(mempool, statements, done)
           /\ walk' = IF done = Len(statements)
                      THEN [walk EXCEPT !.remember_start_with_estimate =
                                            Some(start_with_no_estimate)]
                      ELSE Fail(walk, "update_last_known_nonces")
    /\ UNCHANGED <<indexer_vars, decoder_vars, store, mret, fee_estimates>>

\* The Consider arm, were the bumps made before visit_fn is asked: they are
\* made whatever it answers.
ConsiderAfterBump(answer, done) ==
    /\ walk.pc = "loop"
    /\ \E start_with_no_estimate \in StartWithNoEstimate :
       \E c \in get_next_tx_to_consider(mempool, fee_estimates, start_with_no_estimate) :
       \E tx \in c.tx :
       \E statements \in {BumpStatements(tx)} :
       \E visit \in {[walk EXCEPT !.remember_start_with_estimate = None,
                                  !.total_considered = @ + 1,
                                  !.visited = Append(@, [tx |-> tx,
                                                         update_estimate |-> c.update_estimate,
                                                         answer |-> answer])]} :
           /\ c.kind = "Consider"
           /\ done <= Len(statements)
           /\ answer # "true" => done = Len(statements)
           /\ mempool' = execute_all(mempool, statements, done)
           /\ walk' = IF done < Len(statements)
                      THEN Fail(visit, "bump_last_known_nonces")
                      ELSE IF answer = "Err" THEN Fail(visit, "todo")
                      ELSE IF answer = "false" THEN [visit EXCEPT !.pc = "idle"]
                      ELSE visit
    /\ UNCHANGED <<indexer_vars, decoder_vars, store, mret, fee_estimates>>

\* The Consider arm: visit_fn is called, and after the answer true the bumps
\* are made, of whose statements the first done succeed.
Consider(answer, done) ==
    /\ walk.pc = "loop"
    /\ \E start_with_no_estimate \in StartWithNoEstimate :
       \E c \in get_next_tx_to_consider(mempool, fee_estimates, start_with_no_estimate) :
       \E tx \in c.tx :
       \E statements \in {BumpStatements(tx)} :
       \E visit \in {[walk EXCEPT !.remember_start_with_estimate = None,
                                  !.total_considered = @ + 1,
                                  !.visited = Append(@, [tx |-> tx,
                                                         update_estimate |-> c.update_estimate,
                                                         answer |-> answer])]} :
           /\ c.kind = "Consider"
           /\ done <= Len(statements)
           /\ answer # "true" => done = 0
           /\ mempool' = IF answer = "true"
                         THEN execute_all(mempool, statements, done) ELSE mempool
           /\ walk' = IF answer = "Err" THEN Fail(visit, "todo")
                      ELSE IF answer = "false" THEN [visit EXCEPT !.pc = "idle"]
                      ELSE IF done < Len(statements)
                      THEN Fail(visit, "bump_last_known_nonces")
                      ELSE visit
    /\ UNCHANGED <<indexer_vars, decoder_vars, store, mret, fee_estimates>>

\* The submissions and the walks on one mempool handle: a call starts when the
\* call before it has returned.
NextWalk ==
    \/ /\ walk.pc = "idle"
       /\ \E tx \in WalkTransactions, estimator_result \in {"Ok", "NoEstimateAvailable"} :
              SubmitRaw(tx, FirstStacksBlock, estimator_result)
    \/ ResetLastKnownNonces
    \/ \E settings \in WalkSettings, account_nonces \in AccountNonces :
           StartWalk(settings, account_nonces)
    \/ DeadlineExceeded
    \/ QueryFails
    \/ NoTransactions
    \/ \E done \in 0..MaxStatements : UpdateNonces(done)
    \/ \E answer \in Answers, done \in 0..MaxStatements : Consider(answer, done)

SpecWalk == Init /\ [][NextWalk]_vars

----------------------------------------------------------------------------
\* Walks that follow a walk or a reset, over rows accepted at different tips

\* Transactions of two accounts, each standard or sponsored by the other.
RewalkTransactions ==
    { tx \in [origin_address : Addresses, origin_nonce : WalkNonces,
              sponsor : {None} \cup { Some(s) : s \in [address : Addresses, nonce : {0}] },
              tx_fee : {1}, length : {1}] :
        /\ \A s \in tx.sponsor : s.address # tx.origin_address
        /\ (tx.origin_address # 1 \/ tx.sponsor # None) => tx.origin_nonce = 0 }

\* The tips the rows are accepted at.
RewalkTips == {FirstStacksBlock, Tip("ch1", "bh1")}

\* No row of the table is ready to mine: the candidate queries answer no row.
NoCandidate(conn) == \A r \in conn : ~ReadyToMine(r)

\* What the call before a call of iterate_candidates was: a reset of the
\* last-known nonces; a walk that returned Ok with every visit answered true,
\* which left no candidate or left some; or anything else.
CallBefore ==
    IF mret.op = "reset_last_known_nonces" THEN "reset"
    ELSE IF /\ mret.op = "iterate_candidates"
            /\ walk.result = "Ok"
            /\ \A i \in 1..Len(walk.visited) : walk.visited[i].answer = "true"
         THEN IF NoCandidate(mempool) THEN "walk to the end" ELSE "walk cut short"
         ELSE ""

\* iterate_candidates is called, and the call before it is noted.
StartWalkAfter(settings, account_nonces) ==
    /\ walk.pc = "idle"
    /\ walk' = [NoWalk EXCEPT !.pc = "loop", !.settings = settings,
                              !.account_nonces = account_nonces]
    /\ mret' = [NoCall EXCEPT !.op = "iterate_candidates", !.after = CallBefore]
    /\ UNCHANGED <<indexer_vars, decoder_vars, store, mempool, fee_estimates>>

\* The calls on one mempool handle when no statement of a walk fails.
NextRewalk ==
    \/ /\ walk.pc = "idle"
       /\ \E tx \in RewalkTransactions, tip \in RewalkTips :
              SubmitRaw(tx, tip, "NoEstimateAvailable")
    \/ ResetLastKnownNonces
    \/ \E settings \in WalkSettings, account_nonces \in AccountNonces :
           StartWalkAfter(settings, account_nonces)
    \/ DeadlineExceeded
    \/ NoTransactions
    \/ \E done \in 0..MaxStatements : UpdateNonces(done) /\ walk'.failed = ""
    \/ \E answer \in {"true", "false"}, done \in 0..MaxStatements :
           Consider(answer, done) /\ walk'.failed = ""

SpecRewalk == Init /\ [][NextRewalk]_vars

----------------------------------------------------------------------------
\* Walks whose visit_fn always answers true and whose statements all succeed

\* An iteration of the loop of iterate_candidates other than the deadline's.
WalkLoop ==
    \/ NoTransactions
    \/ \E done \in 0..MaxStatements : UpdateNonces(done) /\ walk'.failed = ""
    \/ \E done \in 0..MaxStatements : Consider("true", done) /\ walk'.failed = ""

\* The calls on one mempool handle.  The deadline may end a walk, and so leave
\* any last-known nonces to the walk after it, but no walk counts on it.
NextTermination ==
    \/ /\ walk.pc = "idle"
       /\ \E tx \in RewalkTransactions, estimator_result \in {"Ok", "NoEstimateAvailable"} :
              SubmitRaw(tx, FirstStacksBlock, estimator_result)
    \/ ResetLastKnownNonces
    \/ \E settings \in WalkSettings, account_nonces \in AccountNonces :
           StartWalk(settings, account_nonces)
    \/ DeadlineExceeded
    \/ WalkLoop

\* iterate_candidates runs on the thread of its caller, which goes from one
\* iteration of the loop to the next for as long as the loop has not ended.
SpecTermination == Init /\ [][NextTermination]_vars /\ WF_vars(WalkLoop)

----------------------------------------------------------------------------
\* Vocabulary of the properties

Canonical(hdrs) == { r \in hdrs : r.is_canonical = 1 }

\* a is the greater header: height first, the hash breaks a tie.
Greater(a, b) ==
    \/ a.height > b.height
    \/ a.height = b.height /\ a.header_hash > b.header_hash

HasCanonicalParent(hdrs, r) ==
    \E p \in Canonical(hdrs) : p.header_hash = r.parent_header_hash

RECURSIVE Chain(_, _)
\* The rows reached from `hash` by following parent_header_hash, `hash` included.
Chain(hdrs, hash) ==
    IF ~HasHeader(hdrs, hash) THEN {}
    ELSE LET r == HeaderFor(hdrs, hash) IN {r} \cup Chain(hdrs, r.parent_header_hash)

\* The last call was a push_block of a block that was not in the table.
Pushed == ret.op = "push_block" /\ ret.outcome # "err"

PushedBlock == CHOOSE b \in ret.block : TRUE

OldTip == CHOOSE t \in ret.tip : TRUE

----------------------------------------------------------------------------
\* C1: after any sequence of push_block calls the rows flagged is_canonical are
\* one parent-linked chain: no two of them have the same height, every one but
\* the root of the chain has a flagged parent, and the chain ends at the
\* canonical tip.
C1_OneCanonicalChain ==
    LET canon == Canonical(headers) IN
    /\ \A a, b \in canon : a.height = b.height => a = b
    /\ \A a, b \in canon :
          (~HasCanonicalParent(headers, a) /\ ~HasCanonicalParent(headers, b)) => a = b
    /\ headers # {} =>
          /\ get_canonical_chain_tip(headers) \subseteq canon
          /\ \A t \in get_canonical_chain_tip(headers) :
                canon = Chain(canon, t.header_hash)

\* C1 where it fails: a block whose parent is not in the table, greater than the
\* tip, has just been stored flagged, and the old tip is flagged too.
C1_TwoChains ==
    /\ Pushed /\ ret.outcome = "panic" /\ ret.tip # {}
    /\ \E r \in Canonical(headers) :
          /\ r.header_hash = PushedBlock.header_hash
          /\ ~HasHeader(headers, r.parent_header_hash)
    /\ \E t \in Canonical(headers) : t.header_hash = OldTip.header_hash

----------------------------------------------------------------------------
\* C2: the row get_canonical_chain_tip returns is flagged is_canonical and is
\* the greatest (height, then header_hash) of the flagged rows; a row that is
\* not flagged is never the tip.
C2_TipIsGreatestCanonical ==
    get_canonical_chain_tip(headers) =
        { r \in Canonical(headers) : \A o \in Canonical(headers) : r = o \/ Greater(r, o) }

\* C2's case: the table holds an unflagged row as high as the tip.
C2_Witness ==
    /\ Pushed
    /\ \E t \in get_canonical_chain_tip(headers) :
          \E r \in headers : r.is_canonical = 0 /\ r.height = t.height

----------------------------------------------------------------------------
\* C3: process_reorg run a second time with the same (new_tip, old_tip), on the
\* table the first run left, leaves every is_canonical flag as it is and
\* returns the height the first run returned.
C3_ReorgIdempotent ==
    [][ret'.op = "process_reorg" =>
          /\ headers' = headers
          /\ ret'.outcome = "ok"
          /\ ret'.value = ret.value]_vars

\* C3 where it fails: the first run flagged more than new_tip (the greatest
\* common ancestor lies below new_tip's parent), and the second run has changed
\* the flags and ended in a panic.
C3_SecondRunDiffers ==
    /\ ret.op = "process_reorg" /\ ret.outcome = "panic"
    /\ ret.first + 1 < PushedBlock.height
    /\ \E r \in headers : r.is_canonical = 0 /\ r.parent_header_hash = 0

----------------------------------------------------------------------------
\* C4: two deliveries of one set of headers, each with every header after its
\* parent, end with the same canonical tip and the same flagged rows.
C4_OrderIndependent ==
    { BlockOf(r) : r \in headers } = { BlockOf(r) : r \in headers2 } =>
        /\ Canonical(headers) = Canonical(headers2)
        /\ get_canonical_chain_tip(headers) = get_canonical_chain_tip(headers2)

\* C4's case: both nodes hold the same blocks, two of them of one height, and
\* the block the second node got last is not the one the first node got last.
C4_Witness ==
    /\ ret.op = "push_block_2"
    /\ { BlockOf(r) : r \in headers } = { BlockOf(r) : r \in headers2 }
    /\ ret.rows[1] \notin ret.block
    /\ \E a, b \in headers : a # b /\ a.height = b.height
    /\ \E r \in headers : r.is_canonical = 0

----------------------------------------------------------------------------
\* More vocabulary

RowOf(b, flag) == [height |-> b.height, header_hash |-> b.header_hash,
                   parent_header_hash |-> b.parent_header_hash,
                   time_stamp |-> b.time_stamp, is_canonical |-> flag]

\* The greatest height of a set of rows, 0 for none.
TopHeight(rows) ==
    IF rows = {} THEN 0
    ELSE CHOOSE h \in { r.height : r \in rows } : \A r \in rows : r.height <= h

\* The rows of the chain of hash a whose hash is on the chain of hash b too.
CommonChain(hdrs, a, b) ==
    { r \in Chain(hdrs, a) : \E q \in Chain(hdrs, b) : q.header_hash = r.header_hash }

----------------------------------------------------------------------------
\* C5: push_block of a new header N with tip T: N is stored flagged and no reorg
\* runs when the table is empty or N's parent is T; otherwise N is stored
\* flagged and a reorg runs (T is unflagged when it ends) if N is greater than T
\* by height, then hash; otherwise N is stored unflagged, the tip stays T and no
\* other row changes.
C5_IngestDecision ==
    [][(ret'.op = "push_block" /\ ret'.outcome # "err") =>
          LET N == CHOOSE b \in ret'.block : TRUE
              tip == get_canonical_chain_tip(headers)
          IN  IF tip = {} \/ (\E T \in tip : N.parent_header_hash = T.header_hash)
              THEN /\ ~ret'.needs_reorg
                   /\ headers' = headers \cup {RowOf(N, 1)}
              ELSE IF \E T \in tip : Greater(N, T)
              THEN /\ ret'.needs_reorg
                   /\ RowOf(N, 1) \in headers'
                   /\ ret'.outcome = "ok" =>
                         \A T \in tip : RowOf(BlockOf(T), 0) \in headers'
              ELSE /\ ~ret'.needs_reorg
                   /\ headers' = headers \cup {RowOf(N, 0)}
                   /\ get_canonical_chain_tip(headers') = tip]_vars

\* C5's case: a header as high as the tip, not its child, won the tie on the
\* hash and the reorg ended.
C5_Witness ==
    /\ Pushed /\ ret.needs_reorg /\ ret.outcome = "ok"
    /\ ret.tip # {} /\ PushedBlock.height = OldTip.height
    /\ RowOf(BlockOf(OldTip), 0) \in headers

----------------------------------------------------------------------------
\* C6: after a push_block that ran a reorg from old tip T to new tip N, the
\* flagged rows are N and its ancestors, every row of T's chain that is not on
\* N's chain is unflagged, and the reorg returned the height of the greatest
\* common ancestor of T and N.
C6_ReorgResult ==
    (Pushed /\ ret.needs_reorg /\ ret.outcome = "ok") =>
        LET N == PushedBlock
            T == OldTip
            common == CommonChain(headers, T.header_hash, N.header_hash)
        IN  /\ Canonical(headers) = Chain(headers, N.header_hash)
            /\ \A r \in Chain(headers, T.header_hash) :
                  r \notin common => r.is_canonical = 0
            /\ common # {}
            /\ ret.value = TopHeight(common)

----------------------------------------------------------------------------
\* C7: push_block of a header whose parent is not in the table (which holds
\* other rows) returns success, the header is stored unflagged, and the tip is
\* the tip of before.
C7_OrphanStaysSideBranch ==
    (Pushed /\ ret.tip # {} /\ ~HasHeader(headers, PushedBlock.parent_header_hash)) =>
        /\ ret.outcome = "ok"
        /\ RowOf(PushedBlock, 0) \in headers
        /\ get_canonical_chain_tip(headers) = ret.tip

----------------------------------------------------------------------------
\* C8: find_chain_reorg called with a cached tip that is no longer flagged
\* returns the height of the first flagged ancestor of that tip, which is the
\* greatest common ancestor of the cached and the current tip, and caches the
\* current tip; the call right after it returns the height of the current tip.
C8_ReorgPoint ==
    [][/\ (/\ ret'.op = "find_chain_reorg"
           /\ \E last \in last_canonical_tip : RowOf(BlockOf(last), 0) \in headers)
          => LET last == CHOOSE t \in last_canonical_tip : TRUE
                 tip == get_canonical_chain_tip(headers)
             IN  /\ ret'.outcome = "ok"
                 /\ ret'.value = TopHeight(Canonical(Chain(headers, last.header_hash)))
                 /\ \A t \in tip :
                       ret'.value = TopHeight(CommonChain(headers, last.header_hash,
                                                          t.header_hash))
                 /\ last_canonical_tip' = tip
       /\ (ret.op = "find_chain_reorg" /\ ret.outcome = "ok"
              /\ ret'.op = "find_chain_reorg")
          => /\ ret'.outcome = "ok"
             /\ ret'.value = TopHeight(get_canonical_chain_tip(headers))]_vars

\* C8 where it fails: the call has ended in a panic on a cached tip that is
\* stored unflagged and has no flagged ancestor.
C8_NoFlaggedAncestor ==
    /\ ret.op = "find_chain_reorg" /\ ret.outcome = "panic"
    /\ \E last \in last_canonical_tip :
          /\ RowOf(BlockOf(last), 0) \in headers
          /\ Canonical(Chain(headers, last.header_hash)) = {}

----------------------------------------------------------------------------
\* C9: find_chain_reorg called with no cached tip, or with a cached tip that is
\* still flagged, returns the greatest height of the flagged rows (0 for an
\* empty table); an unflagged row does not raise it.
C9_NoReorgHeight ==
    (/\ ret.op = "find_chain_reorg"
     /\ \A last \in ret.tip : RowOf(BlockOf(last), 1) \in headers) =>
        /\ ret.outcome = "ok"
        /\ ret.value = TopHeight(Canonical(headers))

\* C9's case: the cached tip is still flagged, the tip has moved up since it
\* was cached, and an unflagged row sits beside the chain.
C9_Witness ==
    /\ ret.op = "find_chain_reorg"
    /\ \E last \in ret.tip : RowOf(BlockOf(last), 1) \in headers /\ last.height < ret.value
    /\ \E r \in headers : r.is_canonical = 0

----------------------------------------------------------------------------
\* C10: read_headers(start, end) returns flagged rows only, of heights start,
\* start + 1, ..., all below end, and ends at the first height that has no
\* flagged row.
C10_ReadHeaders ==
    ret.op = "read_headers" =>
        /\ \A i \in 1..Len(ret.rows) :
              /\ ret.rows[i] \in Canonical(headers)
              /\ ret.rows[i].height = ret.start + i - 1
              /\ ret.rows[i].height < ret.end
        /\ ret.start + Len(ret.rows) < ret.end =>
              ~\E r \in Canonical(headers) : r.height = ret.start + Len(ret.rows)

----------------------------------------------------------------------------
\* C11: no row is ever deleted and no row's height, header_hash,
\* parent_header_hash or time_stamp ever changes; push_block with its reorg adds
\* at most the one row of the block pushed and otherwise only flips flags, and
\* sync_headers, drop_headers, read_headers and find_chain_reorg leave every row
\* as it is.
C11_RowsKept ==
    [][/\ \A r \in headers :
             \E q \in headers' :
                /\ BlockOf(q) = BlockOf(r)
                /\ \A o \in headers' : o.header_hash = r.header_hash => o = q
       /\ ret'.op = "push_block" =>
             \A q \in headers' :
                \/ \E r \in headers : BlockOf(r) = BlockOf(q)
                \/ \A b \in ret'.block : BlockOf(q) = b
       /\ ret'.op \in {"sync_headers", "drop_headers", "read_headers", "find_chain_reorg"}
             => headers' = headers]_vars

\* C11's case: drop_headers has run on a table in which a reorg has unflagged a
\* row and which holds rows above height 0.
C11_Witness ==
    /\ ret.op = "drop_headers"
    /\ \E r \in headers : r.is_canonical = 0
    /\ \E r \in headers : r.height > 0 /\ r.time_stamp = TimeStampOf(r.header_hash)

----------------------------------------------------------------------------
\* C12: push_block of a header whose header_hash is already stored ends with an
\* error and leaves the table as it was: no row added, no flag flipped, also
\* when the decision had been to store it canonical and to reorg.
C12_DuplicateRefused ==
    [][(\/ ret'.op = "push_block_again"
        \/ ret'.op = "push_block" /\ \A b \in ret'.block : HasHeader(headers, b.header_hash))
       => (ret'.outcome = "err" /\ headers' = headers)]_vars

\* C12's case: a stored hash has been pushed again as a block greater than the
\* tip that is not the tip's child, so that the decision was a reorg, into a
\* table that holds an unflagged row.
C12_Witness ==
    /\ ret.op = "push_block_again" /\ ret.outcome = "err"
    /\ ret.is_canonical /\ ret.needs_reorg
    /\ \E r \in headers : r.is_canonical = 0

----------------------------------------------------------------------------
\* C13: get_first_block_height, get_first_block_header_hash and
\* get_first_block_header_timestamp return the height, the hash and the time
\* stamp of the row of the configured first burn header once that row is
\* stored, and end with an error, not a panic, while it is not.
C13_FirstBlock ==
    ret.op \in {"get_first_block_height", "get_first_block_header_hash",
                "get_first_block_header_timestamp"} =>
        IF HasHeader(headers, first_burn_header_hash)
        THEN LET first == HeaderFor(headers, first_burn_header_hash) IN
             /\ ret.outcome = "ok"
             /\ ret.op = "get_first_block_height" => ret.value = first.height
             /\ ret.op = "get_first_block_header_hash" => ret.value = first.header_hash
             /\ ret.op = "get_first_block_header_timestamp" => ret.value = first.time_stamp
        ELSE ret.outcome = "err"

\* C13 where it fails: the first burn header is stored and the question about
\* it has ended in a panic.
C13_PanicOnStoredFirst ==
    /\ ret.op = "get_first_block_header_hash" /\ ret.outcome = "panic"
    /\ HasHeader(headers, first_burn_header_hash)

----------------------------------------------------------------------------
\* C14: the writes to the table are serialized: at most one push_block is in
\* flight at a time, so that no two deliveries read the same tip and are both
\* stored canonical at one height.
C14_WritesSerialized ==
    /\ Cardinality({ t \in Tasks : in_flight[t].pc # "idle" }) <= 1
    /\ (\A t \in Tasks : in_flight[t].pc = "idle") =>
          \A a, b \in Canonical(headers) : a.height = b.height => a = b

\* C14 where it fails: both tasks are done, and two rows of one height that are
\* children of one stored parent are both flagged.
C14_BothCanonical ==
    /\ \A t \in Tasks : in_flight[t].pc = "idle"
    /\ \E a, b \in Canonical(headers) :
          /\ a # b /\ a.height = b.height
          /\ a.parent_header_hash = b.parent_header_hash
          /\ HasHeader(headers, a.parent_header_hash)

----------------------------------------------------------------------------
\* Vocabulary of the decoder's properties

Env == CHOOSE b \in envelope : TRUE

Built == CHOOSE x \in block : TRUE

\* The event is committed, a contract_event, and of the governing contract.
FromGoverning(e) ==
    /\ e.committed
    /\ e.event_type = "contract_event"
    /\ \E c \in e.contract_event : c.contract_identifier = subnets_contract

\* The event's value is the print of one of the protocol's operations, with the
\* fields that operation needs.
WellFormedValue(v) ==
    /\ v.kind = "tuple"
    /\ "event" \in DOMAIN v.fields
    /\ v.fields["event"].type = "string-ascii"
    /\ v.fields["event"].s \in Tags
    /\ IF v.fields["event"].s = "block-commit"
       THEN /\ "block-commit" \in DOMAIN v.fields
            /\ v.fields["block-commit"].type = "buffer"
            /\ v.fields["block-commit"].len = 32
       ELSE /\ "args" \in DOMAIN v.fields
            /\ v.fields["args"] = UIntValue

WellFormed(e) ==
    /\ FromGoverning(e)
    /\ e.event_index.hi = 0
    /\ \A c \in e.contract_event : WellFormedValue(c.value)

TagOf(e) == (CHOOSE c \in e.contract_event : TRUE).value.fields["event"].s

\* The op the protocol names for a tag.
OpTypeOf(tag) ==
    CASE tag = "block-commit" -> "BlockCommit"
      [] tag = "deposit-stx" -> "DepositStx"
      [] tag = "deposit-ft" -> "DepositFt"
      [] tag = "deposit-nft" -> "DepositNft"
      [] tag = "withdraw-stx" -> "WithdrawStx"
      [] tag = "withdraw-ft" -> "WithdrawFt"
      [] tag = "withdraw-nft" -> "WithdrawNft"
      [] tag = "register-asset" -> "RegisterAsset"

\* The op carries what the event carries.
IsSource(e, op) ==
    /\ FromGoverning(e)
    /\ e.txid = op.txid
    /\ e.event_index = [hi |-> 0, lo |-> op.event_index]

----------------------------------------------------------------------------
\* C15: the ops of the built block are in the order of their source events in
\* the envelope: of any two ops, the earlier one has a source event listed
\* before a source event of the later one.
C15_OpsInEnvelopeOrder ==
    block # {} =>
        \A k, l \in 1..Len(Built.ops) :
            k < l =>
                \E i, j \in 1..Len(Env.events) :
                    /\ i < j
                    /\ IsSource(Env.events[i], Built.ops[k])
                    /\ IsSource(Env.events[j], Built.ops[l])

\* C15's case: two ops of different events have been built from an envelope
\* that lists the event with the higher event_index first.
C15_Witness ==
    /\ block # {}
    /\ Len(Built.ops) = 2
    /\ Built.ops[1] # Built.ops[2]
    /\ Built.ops[1].event_index > Built.ops[2].event_index

----------------------------------------------------------------------------
\* C16: every op of the built block has a source event that is committed, of
\* type contract_event and of the governing contract, carries that event's txid
\* and event_index and the envelope's index_block_hash as in_block, and no
\* event yields more than one op; events that are uncommitted, of another type
\* or of another contract yield none.
C16_OpsFromGoverningEvents ==
    block # {} =>
        /\ \A k \in 1..Len(Built.ops) :
              /\ Built.ops[k].in_block = Env.index_block_hash
              /\ \E i \in 1..Len(Env.events) : IsSource(Env.events[i], Built.ops[k])
        /\ Len(Built.ops) <=
              Cardinality({ i \in 1..Len(Env.events) : FromGoverning(Env.events[i]) })

\* C16's case: an op has been built from an envelope that also holds an event
\* that is not a committed contract_event of the governing contract.
C16_Witness ==
    /\ block # {}
    /\ Len(Built.ops) = 1
    /\ \E i \in 1..Len(Env.events) : ~FromGoverning(Env.events[i])

----------------------------------------------------------------------------
\* C17: from_new_block_event always returns a block, with the envelope's
\* current_block, parent_block and block_height; the events that are not well
\* formed yield no op and every well-formed event of the governing contract
\* yields one.
C17_MalformedSkipped ==
    /\ (envelope # {} /\ block = {}) => ENABLED Decode
    /\ block # {} =>
          /\ Built.current_block = Env.index_block_hash
          /\ Built.parent_block = Env.parent_index_block_hash
          /\ Built.block_height = Env.block_height
          /\ Len(Built.ops) = Len(SelectSeq(Env.events, WellFormed))

\* C17 where it fails: the envelope holds a well-formed block-commit and a
\* well-formed deposit-stx, and the block built has one op.
C17_DepositSkipped ==
    /\ block # {}
    /\ Len(Built.ops) = 1
    /\ Len(SelectSeq(Env.events, WellFormed)) = 2

----------------------------------------------------------------------------
\* C18: a well-formed event of the governing contract yields the op of its
\* tag, for each of the eight tags.
C18_DispatchOnTag ==
    (block # {} /\ Len(Env.events) = 1 /\ WellFormed(Env.events[1])) =>
        /\ Len(Built.ops) = 1
        /\ Built.ops[1].event.type = OpTypeOf(TagOf(Env.events[1]))

\* C18 where it fails: the one event of the envelope is a well-formed
\* withdraw-ft of the governing contract, and the block built has no op.
C18_WithdrawDropped ==
    /\ block # {}
    /\ Len(Env.events) = 1 /\ WellFormed(Env.events[1])
    /\ TagOf(Env.events[1]) = "withdraw-ft"
    /\ Built.ops = <<>>

----------------------------------------------------------------------------
\* Vocabulary of the mempool's properties

\* The slots of a row: the (address, nonce) pair of its origin and of its sponsor.
OriginSlot(r) == <<r.origin_address, r.origin_nonce>>
SponsorSlot(r) == <<r.sponsor_address, r.sponsor_nonce>>

\* The last call was a submit or a submit_raw that reached try_add_tx.
Decided == /\ mret.op \in {"submit", "submit_raw"}
           /\ mret.outcome \in {"Ok", "ConflictingNonceInMempool"}

\* The txids in a table.
TxidsIn(conn) == { r.txid : r \in conn }

----------------------------------------------------------------------------
\* C19: in every state that submit, submit_raw, drop_txs and garbage_collect
\* reach, an (address, nonce) pair is in at most one row: no two rows have the
\* same origin slot, no two the same sponsor slot, and no pair is the origin
\* slot of one row and the sponsor slot of another.
C19_OneRowPerSlot ==
    \A r1, r2 \in mempool :
        r1 # r2 => /\ OriginSlot(r1) # OriginSlot(r2)
                   /\ SponsorSlot(r1) # SponsorSlot(r2)
                   /\ OriginSlot(r1) # SponsorSlot(r2)

\* C19 as amended: in every reachable state no two rows have the same origin
\* slot and no two rows the same sponsor slot.
C19_OneRowPerColumnSlot ==
    \A r1, r2 \in mempool :
        r1 # r2 => /\ OriginSlot(r1) # OriginSlot(r2)
                   /\ SponsorSlot(r1) # SponsorSlot(r2)

\* C19's case: a submission has replaced the row it found, and the table holds
\* two rows, the origin slot of one being the sponsor slot of the other.
C19_Witness ==
    /\ Decided /\ mret.outcome = "Ok" /\ mret.prior_tx # None
    /\ \E r1, r2 \in mempool : r1 # r2 /\ OriginSlot(r1) = SponsorSlot(r2)

----------------------------------------------------------------------------
\* The rows of a table in the slot where try_add_tx found the prior row p of
\* the transaction tx: tx's origin slot when p has that origin slot, and tx's
\* sponsor slot otherwise.
SlotOfPrior(conn, tx, p) ==
    IF OriginSlot(p) = <<tx.origin_address, tx.origin_nonce>>
    THEN { r \in conn : OriginSlot(r) = OriginSlot(p) }
    ELSE { r \in conn : SponsorSlot(r) = SponsorSlot(p) }

\* C20: a submission that finds a prior row in its slot and has a tx_fee
\* strictly greater than the prior row's replaces it, whatever the lengths of
\* the two transactions: the call succeeds, the prior txid is no longer in the
\* table, the new txid is, and the slot holds the new row alone, with a tx_fee
\* strictly greater than the prior row's.
C20_ReplaceByFee ==
    [][\A tx \in mret'.tx, p \in mret'.prior_tx :
          (/\ mret'.op \in {"submit", "submit_raw"}
           /\ mret'.outcome \in {"Ok", "ConflictingNonceInMempool"}
           /\ tx.tx_fee > p.tx_fee)
          => /\ p \in mempool
             /\ mret'.outcome = "Ok"
             /\ p.txid \notin TxidsIn(mempool')
             /\ TxidOf(tx) \in TxidsIn(mempool')
             /\ SlotOfPrior(mempool', tx, p) # {}
             /\ \A r \in SlotOfPrior(mempool', tx, p) :
                    /\ r.txid = TxidOf(tx)
                    /\ r.length = tx.length
                    /\ r.tx_fee > p.tx_fee]_vars

\* C20's case: a submission has replaced a prior row of a smaller tx_fee and of
\* a greater fee per byte.
C20_Witness ==
    /\ Decided /\ mret.outcome = "Ok"
    /\ \E tx \in mret.tx, p \in mret.prior_tx :
          /\ tx.tx_fee > p.tx_fee
          /\ tx.tx_fee * p.length < p.tx_fee * tx.length
          /\ TxidOf(tx) \in TxidsIn(mempool)
          /\ p.txid \notin TxidsIn(mempool)

----------------------------------------------------------------------------
\* The tip of a row and the same-fork test on two tips.
TipOf(r) == Tip(r.consensus_hash, r.block_header_hash)

SameFork(t1, t2) ==
    are_blocks_in_same_fork(t1.consensus_hash, t1.block_header_hash,
                            t2.consensus_hash, t2.block_header_hash)

\* The step is a submit or a submit_raw that reached try_add_tx.
DecidedStep == /\ mret'.op \in {"submit", "submit_raw"}
               /\ mret'.outcome \in {"Ok", "ConflictingNonceInMempool"}

\* C21: a submission that finds a prior row in its slot, has a tx_fee not
\* greater than the prior row's and is made at a tip in the same fork as the
\* prior row's tip is rejected with ConflictingNonceInMempool; afterwards the
\* prior row is still there unchanged and the new txid is not in the table.
C21_ConflictRejected ==
    [][\A tx \in mret'.tx, tip \in mret'.tip, p \in mret'.prior_tx :
          (DecidedStep /\ ~(tx.tx_fee > p.tx_fee) /\ SameFork(TipOf(p), tip))
          => /\ mret'.outcome = "ConflictingNonceInMempool"
             /\ p \in mempool /\ p \in mempool'
             /\ TxidOf(tx) \notin TxidsIn(mempool')]_vars

\* C21 as amended: the same, where the new txid is not in the table unless the
\* submission is the transaction of the prior row itself; and the whole table
\* is as before.
C21_ConflictRejectedUnlessSame ==
    [][\A tx \in mret'.tx, tip \in mret'.tip, p \in mret'.prior_tx :
          (DecidedStep /\ ~(tx.tx_fee > p.tx_fee) /\ SameFork(TipOf(p), tip))
          => /\ mret'.outcome = "ConflictingNonceInMempool"
             /\ p \in mempool /\ p \in mempool'
             /\ mempool' = mempool
             /\ (TxidOf(tx) # p.txid => TxidOf(tx) \notin TxidsIn(mempool'))]_vars

\* C21's case: a submission of another transaction than the prior row's, with
\* a tx_fee not greater and at another tip of the same fork, has been rejected.
C21_Witness ==
    /\ mret.op \in {"submit", "submit_raw"}
    /\ mret.outcome = "ConflictingNonceInMempool"
    /\ \E tx \in mret.tx, tip \in mret.tip, p \in mret.prior_tx :
          /\ p \in mempool
          /\ TxidOf(tx) # p.txid
          /\ ~(tx.tx_fee > p.tx_fee)
          /\ tip # TipOf(p) /\ SameFork(TipOf(p), tip)

----------------------------------------------------------------------------
\* Ancestry in the chainstate: the first block is the parent of the two others.
IsAncestor(a, t) == a = FirstStacksBlock /\ t \in StacksBlocks \ {FirstStacksBlock}

\* Two tips are in the same fork: they are equal or one is an ancestor of the other.
EqualOrAncestor(t1, t2) == t1 = t2 \/ IsAncestor(t1, t2) \/ IsAncestor(t2, t1)

\* The rows of a table in the slots of the transaction tx.
RowsInSlotsOf(conn, tx) ==
    { r \in conn : \/ OriginSlot(r) = <<tx.origin_address, tx.origin_nonce>>
                   \/ \E s \in tx.sponsor : SponsorSlot(r) = <<s.address, s.nonce>>
                   \/ tx.sponsor = None
                      /\ SponsorSlot(r) = <<tx.origin_address, tx.origin_nonce>> }

\* C22: a submission that finds a prior row in its slot and has a tx_fee not
\* greater than the prior row's replaces it exactly when the tip of the prior
\* row and the tip of the submission are not in the same fork, two tips being
\* in the same fork when they are equal or one is an ancestor of the other;
\* the row that replaces it has the consensus_hash and the block_header_hash
\* of the submission.
C22_ReplaceAcrossFork ==
    [][\A tx \in mret'.tx, tip \in mret'.tip, p \in mret'.prior_tx :
          (DecidedStep /\ ~(tx.tx_fee > p.tx_fee))
          => /\ p \in mempool
             /\ mret'.outcome = "Ok" <=> ~EqualOrAncestor(TipOf(p), tip)
             /\ mret'.outcome = "Ok" =>
                   /\ RowsInSlotsOf(mempool', tx) # {}
                   /\ \A r \in RowsInSlotsOf(mempool', tx) :
                          /\ r.txid = TxidOf(tx)
                          /\ r.tx_fee = tx.tx_fee
                          /\ TipOf(r) = tip
             /\ mret'.outcome # "Ok" => mempool' = mempool]_vars

\* C22's case: a submission with a smaller tx_fee than the prior row's, made at
\* a tip that is not in the fork of the prior row's tip, has replaced it.
C22_Witness ==
    /\ Decided /\ mret.outcome = "Ok"
    /\ \E tx \in mret.tx, tip \in mret.tip, p \in mret.prior_tx :
          /\ tx.tx_fee < p.tx_fee
          /\ ~EqualOrAncestor(TipOf(p), tip)
          /\ p \notin mempool
          /\ \E r \in mempool : r.txid = TxidOf(tx) /\ TipOf(r) = tip

----------------------------------------------------------------------------
\* The notifications among ns that carry the txid id.
Reporting(ns, id) == { i \in 1..Len(ns) : id \in ns[i].txids }

\* C23: when submit is given an observer and succeeds, every row it removes
\* from the table is reported by exactly one notification that carries the
\* row's txid, with the reason REPLACE_BY_FEE when the new tx_fee is strictly
\* greater than the row's and REPLACE_ACROSS_FORK otherwise; and a submit that
\* removes no row sends no notification.
C23_RemovedRowsReported ==
    [][(mret'.op = "submit" /\ mret'.outcome = "Ok" /\ mret'.event_observer)
       => /\ \A q \in mempool \ mempool' :
                /\ Cardinality(Reporting(mret'.dropped, q.txid)) = 1
                /\ \A i \in Reporting(mret'.dropped, q.txid), tx \in mret'.tx :
                       mret'.dropped[i].reason = IF tx.tx_fee > q.tx_fee
                                                 THEN "REPLACE_BY_FEE"
                                                 ELSE "REPLACE_ACROSS_FORK"
          /\ (mempool \ mempool' = {} => mret'.dropped = <<>>)]_vars

\* C23 where it fails: a successful submit with an observer has removed two
\* rows and sent one notification, which carries the txid of one of them.
C23_UnreportedRow ==
    /\ mret.op = "submit" /\ mret.outcome = "Ok" /\ mret.event_observer
    /\ Cardinality(mret.removed) = 2
    /\ Len(mret.dropped) = 1
    /\ \E q \in mret.removed : Reporting(mret.dropped, q.txid) = {}

----------------------------------------------------------------------------
\* C24: after a successful submission that found a prior row, the slot of the
\* prior row holds exactly one row, with the txid, the tx_fee and the length of
\* the submission, and every row of the table other than the prior row is
\* still there unchanged.
C24_ReplacementFrame ==
    [][\A tx \in mret'.tx, p \in mret'.prior_tx :
          (DecidedStep /\ mret'.outcome = "Ok")
          => /\ Cardinality(SlotOfPrior(mempool', tx, p)) = 1
             /\ \A r \in SlotOfPrior(mempool', tx, p) :
                    /\ r.txid = TxidOf(tx)
                    /\ r.tx_fee = tx.tx_fee
                    /\ r.length = tx.length
             /\ \A q \in mempool \ {p} : q \in mempool']_vars

\* C24 where it fails: a successful submission has removed the prior row it
\* found in its origin slot and, with it, the row in its sponsor slot, whose
\* tx_fee is not smaller than the submission's and whose tip is the
\* submission's.
C24_SponsorRowEvicted ==
    /\ Decided /\ mret.outcome = "Ok"
    /\ \E tx \in mret.tx, tip \in mret.tip, p \in mret.prior_tx, q \in mret.removed :
          /\ p \in mret.removed /\ q # p
          /\ OriginSlot(p) = <<tx.origin_address, tx.origin_nonce>>
          /\ \E s \in tx.sponsor : SponsorSlot(q) = <<s.address, s.nonce>>
          /\ q.tx_fee >= tx.tx_fee
          /\ TipOf(q) = tip

----------------------------------------------------------------------------
\* C25: after garbage_collect(H) no row with a height below H is in the table,
\* and every row with a height of H or more is still there, unchanged; the
\* table has no other row.
C25_GarbageCollected ==
    [][mret'.op = "garbage_collect"
       => /\ \A r \in mempool' : ~(r.height < mret'.min_height)
          /\ \A r \in mempool : r.height >= mret'.min_height => r \in mempool'
          /\ mempool' \subseteq mempool]_vars

\* C25's case: garbage_collect has removed a row and kept a row, one of them
\* at the height H itself.
C25_Witness ==
    /\ mret.op = "garbage_collect"
    /\ mret.removed # {}
    /\ \E r \in mempool : r.height = mret.min_height

\* C26: with an observer, garbage_collect(H) sends one STALE_COLLECT
\* notification, which carries the txids of the rows it deletes and no other,
\* and sends it while these rows are still in the table.
C26_StaleCollectReported ==
    [][(mret'.op = "garbage_collect" /\ mret'.event_observer)
       => /\ Len(mret'.dropped) = 1
          /\ \A i \in 1..Len(mret'.dropped) :
                /\ mret'.dropped[i].reason = "STALE_COLLECT"
                /\ mret'.dropped[i].txids = TxidsIn(mempool \ mempool')
                /\ TxidsIn(mempool') \cap mret'.dropped[i].txids = {}
                /\ mret'.dropped[i].txids \subseteq TxidsIn(mret'.dropped[i].mempool)
                /\ mret'.dropped[i].mempool = mempool]_vars

\* C26's case: garbage_collect with an observer has removed a row, kept a row
\* and reported the removed one.
C26_Witness ==
    /\ mret.op = "garbage_collect" /\ mret.event_observer
    /\ mret.removed # {} /\ mempool # {}
    /\ Len(mret.dropped) = 1
    /\ mret.dropped[1].txids = TxidsIn(mret.removed)

----------------------------------------------------------------------------
\* Vocabulary of the walks

\* The rows visit_fn was given in the call, in the order of the calls.
Visited == [i \in 1..Len(walk.visited) |-> walk.visited[i].tx]

\* The walk made a step of its loop.
WalkStep == walk.pc = "loop" /\ walk' # walk

\* The account is the origin of the row, or the sponsor of its sponsored
\* transaction.
Involves(r, a) == r.origin_address = a \/ r.sponsor_address = a

\* C27: within one iterate_candidates call with no external writes, each
\* origin address appears in at most one visit_fn invocation: no two visits of
\* the call are given transactions of the same origin.
C27_OneVisitPerOrigin ==
    \A i, j \in 1..Len(walk.visited) :
        i # j => Visited[i].origin_address # Visited[j].origin_address

\* One call has given visit_fn the transaction of nonce 0 of an origin and then
\* the transaction of nonce 1 of the same origin.
C27_TwoVisitsOfOneOrigin ==
    /\ Len(walk.visited) = 2
    /\ Visited[1].origin_address = Visited[2].origin_address
    /\ Visited[1].origin_nonce = 0
    /\ Visited[2].origin_nonce = 1

\* The visits of the call before the i-th that were given a transaction of the
\* account.
VisitsBefore(i, a) == Cardinality({ j \in 1..(i - 1) : Involves(Visited[j], a) })

\* visit_fn has answered true whenever the call asked it.
AlwaysTrue == \A i \in 1..Len(walk.visited) : walk.visited[i].answer = "true"

\* C28: in a call whose visit_fn always answers true, a transaction is given to
\* visit_fn only when its origin nonce, and its sponsor nonce, is the nonce the
\* chainstate holds for the account plus the number of the account's
\* transactions the call has visited before, and no transaction is visited
\* twice: the transactions of an account are visited in consecutive ascending
\* nonce order from its chainstate nonce on.
C28_NonceOrderedVisits ==
    AlwaysTrue =>
        \A i \in 1..Len(walk.visited) :
            /\ Visited[i].origin_nonce
                   = walk.account_nonces[Visited[i].origin_address]
                     + VisitsBefore(i, Visited[i].origin_address)
            /\ Visited[i].sponsor_nonce
                   = walk.account_nonces[Visited[i].sponsor_address]
                     + VisitsBefore(i, Visited[i].sponsor_address)
            /\ \A j \in 1..Len(walk.visited) : Visited[j].txid = Visited[i].txid => j = i

\* One call, whose visit_fn always answered true, has given the same
\* transaction to visit_fn twice.
C28_VisitedTwice ==
    /\ AlwaysTrue
    /\ \E i, j \in 1..Len(walk.visited) : i < j /\ Visited[i].txid = Visited[j].txid

\* C29: iterate_candidates honours settings.min_tx_fee: no transaction whose
\* tx_fee is below the min_tx_fee of the call is given to visit_fn.
C29_MinTxFeeHonoured ==
    \A i \in 1..Len(walk.visited) : Visited[i].tx_fee >= walk.settings.min_tx_fee

\* A call has given visit_fn a transaction whose fee is below its min_tx_fee,
\* and has gone on after the answer true.
C29_VisitedBelowMinTxFee ==
    /\ walk.pc = "loop"
    /\ \E i \in 1..Len(walk.visited) :
           /\ Visited[i].tx_fee < walk.settings.min_tx_fee
           /\ walk.visited[i].answer = "true"

\* An operation failed in this iteration of the loop.
FailedStep == WalkStep /\ walk'.failed # ""

\* C30: when reading a candidate row, refreshing a nonce or visit_fn fails,
\* iterate_candidates goes on with the remaining candidates instead of
\* returning the error to its caller.
C30_ErrorsSwallowed ==
    [][FailedStep => walk'.pc = "loop" /\ walk'.result = "Ok"]_vars

\* C30, as the code has it: when reading a candidate row, refreshing a nonce,
\* visit_fn or a nonce bump fails, iterate_candidates returns the error to its
\* caller at once: the call visits no further candidate, the failed visit
\* is the last of the call, and the rows are as the statements before the
\* failure left them.
C30_ErrorsReturned ==
    [][FailedStep
       => /\ walk'.pc = "idle"
          /\ walk'.result = "Err"
          /\ \/ walk'.visited = walk.visited
             \/ /\ walk'.failed \in {"todo", "bump_last_known_nonces"}
                /\ Len(walk'.visited) = Len(walk.visited) + 1
                /\ SubSeq(walk'.visited, 1, Len(walk.visited)) = walk.visited
          /\ walk'.failed \in {"get_next_tx_to_consider", "todo"} => mempool' = mempool
          /\ \A r \in mempool' : \E o \in mempool : o.txid = r.txid]_vars

\* A call that had visited one transaction has returned the error of visit_fn
\* at the second, while a ready row is left in the mempool.
C30_Witness ==
    /\ walk.pc = "idle"
    /\ walk.result = "Err"
    /\ walk.failed = "todo"
    /\ Len(walk.visited) = 2
    /\ \E r \in mempool : ReadyToMine(r) /\ r.txid # Visited[2].txid

----------------------------------------------------------------------------
\* Vocabulary of the submissions

\* The step is a call of submit.
SubmitStep == mret'.op = "submit"

\* The transaction of the last call.
SubmittedTx == CHOOSE tx \in mret.tx : TRUE

\* The tip is one the chainstate holds.
KnownTip(tip) == get_stacks_block_height(tip.consensus_hash, tip.block_header_hash) # None

\* C31: submit takes the estimator's NoEstimateAvailable for an absent fee
\* rate: the submission is never refused for it, is admitted into a free slot
\* at a known tip unless the admitter refuses it, and the fee_estimates entry
\* of an admitted transaction holds a NULL rate.  Any other error of the
\* estimator rejects the submission and leaves mempool and fee_estimates as
\* they were.
C31_NoEstimateIsNone ==
    [][SubmitStep =>
        \A tx \in mret'.tx, tip \in mret'.tip :
          /\ mret'.estimator_result = "NoEstimateAvailable" =>
                /\ mret'.outcome # "EstimatorError"
                /\ (/\ KnownTip(tip)
                    /\ get_tx_metadata_by_address(mempool, TRUE, tx.origin_address,
                                                  tx.origin_nonce) = None
                    /\ get_tx_metadata_by_address(mempool, FALSE, tx.origin_address,
                                                  tx.origin_nonce) = None
                    /\ mret'.outcome # "NotAdmitted") => mret'.outcome = "Ok"
                /\ mret'.outcome = "Ok" =>
                      /\ \E r \in mempool' : r.txid = TxidOf(tx)
                      /\ [txid |-> TxidOf(tx), fee_rate |-> None] \in fee_estimates'
                      /\ \A e \in fee_estimates' : e.txid = TxidOf(tx) => e.fee_rate = None
          /\ mret'.estimator_result \notin {"Ok", "NoEstimateAvailable"} =>
                /\ mret'.outcome = "EstimatorError"
                /\ mempool' = mempool
                /\ fee_estimates' = fee_estimates
                /\ mret'.dropped = <<>>]_vars

\* A submission without an estimate has replaced a row: the new row is in the
\* mempool, with a NULL rate in fee_estimates.
C31_Witness ==
    /\ mret.op = "submit"
    /\ mret.estimator_result = "NoEstimateAvailable"
    /\ mret.outcome = "Ok"
    /\ mret.prior_tx # None
    /\ [txid |-> TxidOf(SubmittedTx), fee_rate |-> None] \in fee_estimates
    /\ \E r \in mempool : r.txid = TxidOf(SubmittedTx)

----------------------------------------------------------------------------
\* Vocabulary of the store

\* The store is at schema version 2.
AtVersion2(db) ==
    /\ db.exists
    /\ db.versions = {2}
    /\ {"mempool", "fee_estimates", "schema_version"} \subseteq db.tables
    /\ {"last_known_origin_nonce", "last_known_sponsor_nonce"} \subseteq db.columns
    /\ "fee_by_txid" \in db.indexes

\* C32: opening the mempool is an idempotent migration.  From no store, from a
\* store of version 1 and from a store of version 2, open succeeds and leaves
\* the store at schema version 2, with the fee_estimates table and the
\* last-known-nonce columns; it applies the migration when the store was not
\* at version 2 and never a second time; an open of a store at version 2
\* changes nothing; and the rows are kept.
C32_OpenMigratesOnce ==
    [][mret'.op = "open" =>
        /\ mret'.outcome = "Ok"
        /\ store'.opened
        /\ AtVersion2(store'.db)
        /\ store'.migrations = store.migrations + IF AtVersion2(store.db) THEN 0 ELSE 1
        /\ store'.migrations <= 1
        /\ AtVersion2(store.db) => store'.db = store.db
        /\ mempool' = mempool
        /\ fee_estimates' = fee_estimates]_vars

\* A store of version 1 that held a row was migrated by the first open, took a
\* submission with an estimate, and was opened again.
C32_Witness ==
    /\ mret.op = "open"
    /\ mret.outcome = "Ok"
    /\ store.migrations = 1
    /\ AtVersion2(store.db)
    /\ \E r \in mempool : fee_rate_of(fee_estimates, r.txid) # None
    /\ \E r \in mempool : \A e \in fee_estimates : e.txid # r.txid

----------------------------------------------------------------------------
\* Vocabulary of a reorg whose fork point is not in the table

\* Rows A, B and X of the table hdrs and a delivered block c: A has no parent
\* in the table, B is the child of A, X is another child of A's parent, and c
\* is a child of X that ranks above B.
ForksBelowFirstHeader(hdrs, A, B, X, c) ==
    /\ {A, B, X} \subseteq hdrs
    /\ ~HasHeader(hdrs, A.parent_header_hash)
    /\ B.parent_header_hash = A.header_hash
    /\ X.parent_header_hash = A.parent_header_hash
    /\ X.header_hash # A.header_hash
    /\ c.parent_header_hash = X.header_hash
    /\ ~HasHeader(hdrs, c.header_hash)
    /\ compare_headers(B, c) > 0

\* C33: a reorg onto a branch that forks below the first ingested header.  With
\* A and its child B canonical and a sibling X of A (same parent, not in the
\* table) stored non-canonical, push_block of a block C with parent X that
\* ranks above B ends without failure, with C and X canonical, A and B
\* non-canonical, and a greatest common ancestor of height 0.
C33_ReorgBelowFirstHeader ==
    [][\A A, B, X \in headers : \A c \in ret'.block :
          ( /\ ret'.op = "push_block"
            /\ ForksBelowFirstHeader(headers, A, B, X, c)
            /\ A.is_canonical = 1 /\ B.is_canonical = 1 /\ X.is_canonical = 0 )
          => /\ ret'.outcome = "ok"
             /\ ret'.value = 0
             /\ is_canonical(headers', c.header_hash)
             /\ is_canonical(headers', X.header_hash)
             /\ ~is_canonical(headers', A.header_hash)
             /\ ~is_canonical(headers', B.header_hash)]_vars

\* The push_block of such a block C has ended in the panic of process_reorg:
\* C and X are flagged, A and B are flagged still.
C33_PanicBelowFirstHeader ==
    /\ ret.op = "push_block"
    /\ ret.outcome = "panic"
    /\ ret.needs_reorg
    /\ \E A, B, X, C \in headers :
        /\ {BlockOf(C)} = ret.block
        /\ ForksBelowFirstHeader(headers \ {C}, A, B, X, BlockOf(C))
        /\ ret.tip = {B}
        /\ A.is_canonical = 1 /\ B.is_canonical = 1
        /\ X.is_canonical = 1 /\ C.is_canonical = 1

\* C34: push_block is all-or-nothing.  A call that ends in an error or in an
\* abort (the hash is stored already, an ancestor is missing in the walk of the
\* reorg) leaves the table as it was before the call: no row inserted, no flag
\* turned.
C34_AllOrNothing ==
    [][(ret'.op = "push_block" /\ ret'.outcome # "ok") => headers' = headers]_vars

\* A push_block has ended in the panic of a reorg that had flagged an ancestor
\* of the new block: the row of the block is in the table, flagged, its parent
\* is flagged, and the tip the call had read is flagged still.
C34_RowAndFlagsLeft ==
    /\ ret.op = "push_block"
    /\ ret.outcome = "panic"
    /\ \E b \in ret.block : \E t \in ret.tip :
        /\ HasHeader(headers, b.header_hash)
        /\ is_canonical(headers, b.header_hash)
        /\ HasHeader(headers, b.parent_header_hash)
        /\ is_canonical(headers, b.parent_header_hash)
        /\ b.parent_header_hash # t.header_hash
        /\ is_canonical(headers, t.header_hash)

----------------------------------------------------------------------------
\* Vocabulary of the tips of a submission

\* The tip is not in the chainstate and is not under the genesis consensus hash.
ForeignTip(tip) == ~KnownTip(tip) /\ tip.consensus_hash # FIRST_BURNCHAIN_CONSENSUS_HASH

\* The tip is not in the chainstate and is under the genesis consensus hash.
GenesisTip(tip) == ~KnownTip(tip) /\ tip.consensus_hash = FIRST_BURNCHAIN_CONSENSUS_HASH

\* The step leaves the rows and the rates as they were and notifies nobody.
NothingSubmitted ==
    /\ mempool' = mempool
    /\ fee_estimates' = fee_estimates
    /\ mret'.dropped = <<>>
    /\ mret'.prior_tx = None

\* What submit answers about the tip and the admitter once the estimator is
\* past: a tip under the genesis consensus hash that the chainstate does not
\* hold is taken at height 0, and a submission refused for its tip or by the
\* admitter changes nothing.
GenesisAndRejections ==
    \A tx \in mret'.tx, tip \in mret'.tip :
        /\ GenesisTip(tip) =>
              /\ mret'.outcome # "NoSuchChainTip"
              /\ mret'.outcome = "Ok" =>
                    \E r \in mempool' : r.txid = TxidOf(tx) /\ r.height = 0
        /\ mret'.outcome \in {"NoSuchChainTip", "NotAdmitted"} => NothingSubmitted

\* C35 as stated: submit fails with NoSuchChainTip on a tip the chainstate
\* does not hold under a consensus hash other than the genesis one, whatever
\* the estimator answers; such a tip under the genesis consensus hash is taken
\* at height 0; and a submit refused for its tip or by the admitter leaves the
\* mempool as it was and notifies nobody.
C35_NoSuchChainTipWhateverEstimator ==
    [][SubmitStep =>
        /\ \A tip \in mret'.tip : ForeignTip(tip) => mret'.outcome = "NoSuchChainTip"
        /\ GenesisAndRejections]_vars

\* C35: submit asks the estimator before it looks at the tip.  On a tip the
\* chainstate does not hold under a consensus hash other than the genesis one
\* it fails with NoSuchChainTip when the estimator answered a rate or
\* NoEstimateAvailable, and with EstimatorError when the estimator failed
\* otherwise; such a tip under the genesis consensus hash is taken at height 0;
\* and a submit refused for its tip, by the admitter or for the estimator
\* leaves the mempool as it was and notifies nobody.
C35_NoSuchChainTipAfterEstimator ==
    [][SubmitStep =>
        /\ \A tip \in mret'.tip :
              ForeignTip(tip) =>
                  mret'.outcome = IF mret'.estimator_result \in {"Ok", "NoEstimateAvailable"}
                                  THEN "NoSuchChainTip" ELSE "EstimatorError"
        /\ GenesisAndRejections
        /\ mret'.outcome = "EstimatorError" => NothingSubmitted]_vars

\* With a row in the mempool, a submission without an estimate at a tip that
\* the chainstate does not hold, under a consensus hash other than the genesis
\* one, was refused with NoSuchChainTip.
C35_Witness ==
    /\ mret.op = "submit"
    /\ mret.outcome = "NoSuchChainTip"
    /\ mret.estimator_result = "NoEstimateAvailable"
    /\ \A tip \in mret.tip : ForeignTip(tip)
    /\ mempool # {}

\* C36: referential integrity of the fee-rate side table.  After any sequence
\* of submit, drop_txs, garbage_collect and estimate_tx_rates, every txid of
\* fee_estimates is the txid of a row of the mempool (the estimate of a row
\* that was removed or replaced is gone), and every row that submit admitted
\* has its entry in fee_estimates, a single one.
C36_FeeEstimatesFollowMempool ==
    /\ \A e \in fee_estimates : \E r \in mempool : r.txid = e.txid
    /\ \A r \in mempool : Cardinality({ e \in fee_estimates : e.txid = r.txid }) = 1

\* The last call has taken rows with an estimate out of the mempool, by a
\* replacement, a garbage collection or a drop, while a row with an estimate
\* stays; the estimates of the rows taken out are gone.
C36_Witness ==
    /\ mret.removed # {}
    /\ \A r \in mret.removed : \A e \in fee_estimates : e.txid # r.txid
    /\ \E r \in mempool : fee_rate_of(fee_estimates, r.txid) # None

----------------------------------------------------------------------------
\* Vocabulary of the last-known nonces

\* A last-known nonce after a step is set and not below what it was before;
\* one that was NULL before is free.
NotLowered(before, after) == \A x \in before : \E y \in after : y >= x

\* C37: within one iterate_candidates call the last-known origin nonce and the
\* last-known sponsor nonce of a row never decrease once they are set: no step
\* of the walk, a refresh from the chainstate least of all, lowers a value that
\* a visit of the same call has bumped.
C37_LastKnownNoncesMonotone ==
    [][WalkStep =>
        \A r \in mempool : \A q \in mempool' :
            q.txid = r.txid =>
                /\ NotLowered(r.last_known_origin_nonce, q.last_known_origin_nonce)
                /\ NotLowered(r.last_known_sponsor_nonce, q.last_known_sponsor_nonce)]_vars

\* In a call whose every operation succeeded, the first visit was answered
\* true and its transaction's last-known origin nonce was bumped past the
\* transaction's nonce; the call is still in its loop and that last-known
\* nonce is the transaction's nonce again.
C37_BumpedNonceLowered ==
    /\ walk.pc = "loop"
    /\ walk.failed = ""
    /\ Len(walk.visited) >= 1
    /\ walk.visited[1].answer = "true"
    /\ \E r \in mempool :
        /\ r.txid = Visited[1].txid
        /\ r.last_known_origin_nonce = Some(r.origin_nonce)

----------------------------------------------------------------------------
\* Vocabulary of the answers of visit_fn

\* The step called visit_fn.
VisitStep == WalkStep /\ Len(walk'.visited) = Len(walk.visited) + 1

\* The last visit of the call.
LastVisit == walk.visited[Len(walk.visited)]

\* The row of the transaction is in the table conn and is ready to mine.
StillReady(conn, tx) == \E r \in conn : r.txid = tx.txid /\ ReadyToMine(r)

\* C38: when visit_fn answers false, iterate_candidates stops at once and
\* bumps no last-known nonce, so the transaction just visited is as ready to
\* mine for the next call as it was for this one; and the number that
\* iterate_candidates returns is the number of the calls of visit_fn it made,
\* the refused one included.
C38_FalseStopsWithoutBump ==
    [][WalkStep =>
        /\ walk'.total_considered = Len(walk'.visited)
        /\ (VisitStep /\ walk'.visited[Len(walk'.visited)].answer = "false") =>
              /\ walk'.pc = "idle"
              /\ walk'.result = "Ok"
              /\ walk'.failed = ""
              /\ mempool' = mempool
              /\ StillReady(mempool', walk'.visited[Len(walk'.visited)].tx)]_vars

\* A call has returned 2 after a visit answered true and a visit answered
\* false; the transaction of the second visit is ready to mine.
C38_Witness ==
    /\ walk.pc = "idle"
    /\ walk.result = "Ok"
    /\ Len(walk.visited) = 2
    /\ walk.total_considered = 2
    /\ walk.visited[1].answer = "true"
    /\ LastVisit.answer = "false"
    /\ StillReady(mempool, LastVisit.tx)

----------------------------------------------------------------------------
\* Vocabulary of the walks that follow a walk or a reset

\* The txids of the rows visit_fn was given in the call.
VisitedTxids == { Visited[i].txid : i \in 1..Len(walk.visited) }

\* The call has returned Ok, visit_fn answered true every time, and no row is
\* ready to mine: the call ended because no candidate was left.
WalkedToTheEnd ==
    /\ walk.pc = "idle"
    /\ mret.op = "iterate_candidates"
    /\ walk.result = "Ok"
    /\ AlwaysTrue
    /\ NoCandidate(mempool)

\* The nonces of the row are the nonces the chainstate of the call holds for
\* its origin and for its sponsor.
AtChainstateNonces(r) ==
    /\ r.origin_nonce = walk.account_nonces[r.origin_address]
    /\ r.sponsor_nonce = walk.account_nonces[r.sponsor_address]

\* A visit of the call was given another transaction of an account of the row.
AccountVisited(r) ==
    \E i \in 1..Len(walk.visited) :
        /\ Visited[i].txid # r.txid
        /\ \/ Involves(Visited[i], r.origin_address)
           \/ Involves(Visited[i], r.sponsor_address)

\* C39 as stated: after a walk in which every visit answered true, a second
\* walk with no reset_last_known_nonces before it visits no transaction; and a
\* walk after reset_last_known_nonces, at the chainstate of any tip, visits
\* every transaction whose nonces are those of the chainstate, at whatever tip
\* the rows were accepted.
C39_RewalkVisitsNothing ==
    /\ mret.after \in {"walk to the end", "walk cut short"} => walk.visited = <<>>
    /\ (mret.after = "reset" /\ WalkedToTheEnd) =>
           \A r \in mempool : AtChainstateNonces(r) => r.txid \in VisitedTxids

\* C39: what a walk visits follows from the last-known nonces in the rows and
\* from the nonces of the chainstate, not from the tips the rows were accepted
\* at.  After a walk in which every visit answered true and which returned
\* because no candidate was left, a second walk with no call in between visits
\* no transaction, whatever the nonces of the chainstate; and a walk after
\* reset_last_known_nonces that goes on until no candidate is left visits
\* every transaction whose nonces are those of the chainstate, but for those
\* that share an account with a transaction the call has visited.
C39_RewalkAfterExhaustion ==
    /\ mret.after = "walk to the end" => walk.visited = <<>>
    /\ (mret.after = "reset" /\ WalkedToTheEnd) =>
           \A r \in mempool :
               (AtChainstateNonces(r) /\ ~AccountVisited(r)) => r.txid \in VisitedTxids

\* A walk after reset_last_known_nonces has gone on until no candidate was
\* left and has visited two transactions, accepted at two tips; a row at other
\* nonces than those of the chainstate was left out.
C39_Witness ==
    /\ mret.after = "reset"
    /\ WalkedToTheEnd
    /\ Len(walk.visited) = 2
    /\ Visited[1].consensus_hash # Visited[2].consensus_hash
    /\ \E r \in mempool : r.txid \notin VisitedTxids

----------------------------------------------------------------------------
\* Vocabulary of the end of a walk

\* The txids of the rows with NULL in a last-known-nonce column.
NullRows(conn) ==
    { r.txid : r \in { q \in conn : q.last_known_origin_nonce = None
                                     \/ q.last_known_sponsor_nonce = None } }

\* The step is an iteration of the loop that refreshed last-known nonces.
RefreshStep == WalkStep /\ walk'.pc = "loop" /\ walk'.visited = walk.visited

\* C40: termination.  With the rows of the mempool written by nobody else, no
\* deadline and a visit_fn that always answers true, a call of
\* iterate_candidates returns; and the refresh of the nonces is not repeated
\* for ever for one candidate, as each refresh leaves fewer rows with NULL in
\* a last-known-nonce column, the row it was made for among those it fills.
C40_WalkReturns ==
    /\ (walk.pc = "loop") ~> (walk.pc = "idle")
    /\ [][RefreshStep =>
            /\ NullRows(mempool') \subseteq NullRows(mempool)
            /\ NullRows(mempool') # NullRows(mempool)]_vars

\* A call has returned because no candidate was left, after three visits, one
\* transaction visited twice.
C40_Witness ==
    /\ walk.pc = "idle"
    /\ walk.result = "Ok"
    /\ AlwaysTrue
    /\ NoCandidate(mempool)
    /\ Len(walk.visited) = 3
    /\ Visited[1].txid = Visited[2].txid

====
